---- MODULE Spec2Model ----
(***************************************************************************)
(* The HTTP handler of an InfluxDB node (httpd/handler.go): the long-poll  *)
(* wait primitive, the authentication gate, the write path and the query   *)
(* path, over an abstract backend (influxdb.Server, its query language and *)
(* its messaging client).                                                  *)
(***************************************************************************)
EXTENDS Integers, Sequences, FiniteSets, TLC

(***************************************************************************)
(* Bounds of the model.                                                    *)
(***************************************************************************)
\* Requests served through the chain of wrappers in a run.
MaxRequests == 2
\* Data nodes a cluster holds in a run.
MaxNodes == 2
\* Highest index the broker assigns in a run.
MaxIndex == 3
\* Width, in bits, of Go's int, int64 and uint64 (64 in the build), scaled
\* down so that the arithmetic stays inside the model checker's integers.
WordBits == 21

(***************************************************************************)
(* Program constants.                                                      *)
(***************************************************************************)
Millisecond == 1000000
StatusOK == 200
StatusBadRequest == 400
StatusUnauthorized == 401
StatusNotFound == 404
StatusRequestTimeout == 408
StatusInternalServerError == 500

RECURSIVE Pow2(_)
Pow2(n) == IF n = 0 THEN 1 ELSE 2 * Pow2(n - 1)

MaxUint == Pow2(WordBits) - 1
MaxInt == Pow2(WordBits - 1) - 1
MinInt == 0 - Pow2(WordBits - 1)

(***************************************************************************)
(* strconv and fmt, on strings held as sequences of one-character strings. *)
(***************************************************************************)
Digits == {"0", "1", "2", "3", "4", "5", "6", "7", "8", "9"}

DigitVal(c) ==
    CASE c = "0" -> 0 [] c = "1" -> 1 [] c = "2" -> 2 [] c = "3" -> 3
      [] c = "4" -> 4 [] c = "5" -> 5 [] c = "6" -> 6 [] c = "7" -> 7
      [] c = "8" -> 8 [] c = "9" -> 9

DigitChar(n) ==
    CASE n = 0 -> "0" [] n = 1 -> "1" [] n = 2 -> "2" [] n = 3 -> "3"
      [] n = 4 -> "4" [] n = 5 -> "5" [] n = 6 -> "6" [] n = 7 -> "7"
      [] n = 8 -> "8" [] n = 9 -> "9"

\* The digit loop of strconv.ParseUint: a character that is no digit is a
\* syntax error with value 0, a value above the maximum is a range error
\* with the maximum as value.
RECURSIVE ParseDigits(_, _, _)
ParseDigits(s, i, acc) ==
    IF i > Len(s) THEN [v |-> acc, err |-> "nil"]
    ELSE IF s[i] \notin Digits THEN [v |-> 0, err |-> "syntax"]
    ELSE IF acc > (MaxUint - DigitVal(s[i])) \div 10
         THEN [v |-> MaxUint, err |-> "range"]
    ELSE ParseDigits(s, i + 1, acc * 10 + DigitVal(s[i]))

\* strconv.ParseUint(s, 10, 64)
ParseUint(s) ==
    IF s = <<>> THEN [v |-> 0, err |-> "syntax"] ELSE ParseDigits(s, 1, 0)

\* strconv.Atoi(s), that is strconv.ParseInt(s, 10, 0): an optional sign,
\* then ParseUint, then the signed range check.
Atoi(s) ==
    IF s = <<>> THEN [v |-> 0, err |-> "syntax"]
    ELSE LET neg == s[1] = "-"
             rest == IF s[1] \in {"+", "-"} THEN Tail(s) ELSE s
             un == ParseUint(rest)
         IN  IF un.err = "syntax" THEN [v |-> 0, err |-> "syntax"]
             ELSE IF ~neg /\ un.v > MaxInt THEN [v |-> MaxInt, err |-> "range"]
             ELSE IF neg /\ un.v > MaxInt + 1 THEN [v |-> MinInt, err |-> "range"]
             ELSE [v |-> IF neg THEN 0 - un.v ELSE un.v, err |-> un.err]

\* fmt.Sprintf("%d", n) for an unsigned n
RECURSIVE FormatUint(_)
FormatUint(n) ==
    IF n < 10 THEN <<DigitChar(n)>>
    ELSE Append(FormatUint(n \div 10), DigitChar(n % 10))

(***************************************************************************)
(* Machine arithmetic on WordBits-bit words.                               *)
(***************************************************************************)
\* a * b modulo m, by doubling, for 0 <= a, b < m
RECURSIVE MulMod(_, _, _)
MulMod(a, b, m) ==
    IF b = 0 THEN 0
    ELSE LET h == MulMod((a + a) % m, b \div 2, m)
         IN  IF b % 2 = 1 THEN (h + a) % m ELSE h

\* The signed value of an unsigned word.
Signed(u) == IF u > MaxInt THEN u - Pow2(WordBits) ELSE u

\* time.Duration(timeout) * time.Millisecond, wrapping as int64 does.
DurationOf(timeout) ==
    Signed(MulMod(timeout % Pow2(WordBits), Millisecond % Pow2(WordBits),
                  Pow2(WordBits)))

(***************************************************************************)
(* http.ResponseWriter: the header map, the status line and headers as     *)
(* committed by the first WriteHeader or Write, the content written, and   *)
(* whether the content goes through a gzip writer.                         *)
(***************************************************************************)
NewResponse ==
    [code |-> 0, header |-> {}, sent |-> {}, body |-> <<>>, gz |-> FALSE]

\* w.Header().Add(k, v)
HeaderAdd(w, k, v) == [w EXCEPT !.header = @ \cup {<<k, v>>}]

\* w.Header().Set(k, v)
HeaderSet(w, k, v) ==
    [w EXCEPT !.header = {e \in @ : e[1] # k} \cup {<<k, v>>}]

\* w.WriteHeader(code): the first call commits the status and the headers
\* set so far; a later call changes nothing.
WriteHeader(w, code) ==
    IF w.code # 0 THEN w ELSE [w EXCEPT !.code = code, !.sent = w.header]

\* w.Write(b): commits status 200 if no status was written yet.
Write(w, b) ==
    LET c == WriteHeader(w, StatusOK) IN [c EXCEPT !.body = Append(@, b)]

\* The server finishes a response whose handler returned without writing a
\* status: status 200 with the headers set so far.
Finish(w) == WriteHeader(w, StatusOK)

\* gz.Close(), deferred by gzipFilter: the gzip trailer is written to the
\* underlying writer, which commits the response.
gzClose(w) == IF w.gz THEN WriteHeader(w, StatusOK) ELSE w

\* The values of header k the client receives.
Sent(w, k) == {e[2] : e \in {x \in w.sent : x[1] = k}}

(***************************************************************************)
(* The wrappers NewHandler puts around every endpoint, as far as they      *)
(* touch the response: cors, versionHeader and, on a gzipped route,        *)
(* gzipFilter. A request's headers are its Origin header and whether its   *)
(* Accept-Encoding header contains gzip.                                   *)
(***************************************************************************)
Version == "X.X"

AllowMethods == <<"DELETE", "GET", "OPTIONS", "POST", "PUT">>

AllowHeaders ==
    <<"Accept", "Accept-Encoding", "Authorization", "Content-Length",
      "Content-Type", "X-CSRF-Token", "X-HTTP-Method-Override">>

\* cors(inner), for a method other than OPTIONS
cors(w, h) ==
    IF h.origin = "" THEN w
    ELSE HeaderSet(HeaderSet(HeaderSet(w, "Access-Control-Allow-Origin", h.origin),
                             "Access-Control-Allow-Methods", AllowMethods),
                   "Access-Control-Allow-Headers", AllowHeaders)

\* versionHeader(inner, version)
versionHeader(w) == HeaderAdd(w, "X-InfluxDB-Version", Version)

\* Mutant: the response is compressed whatever the request accepts.
gzipFilterAlways(w, h) ==
    [HeaderSet(w, "Content-Encoding", "gzip") EXCEPT !.gz = TRUE]

\* gzipFilter(inner), up to the call of inner
gzipFilter(w, h) ==
    IF ~h.accept THEN w
    ELSE [HeaderSet(w, "Content-Encoding", "gzip") EXCEPT !.gz = TRUE]

\* The response writer the endpoint of a route receives.
Enter(h, gzipped) ==
    LET w == versionHeader(cors(NewResponse, h))
    IN  IF gzipped THEN gzipFilter(w, h) ELSE w

\* The wrappers return: the gzip writer is closed, the server finishes the
\* response.
Leave(w) == Finish(gzClose(w))

NoHeaders == [origin |-> "", accept |-> FALSE]

Headers == [origin : {"", "http://localhost"}, accept : BOOLEAN]

(***************************************************************************)
(* State.                                                                  *)
(***************************************************************************)
VARIABLES
    requireAuthentication, \* Handler.requireAuthentication
    users,                 \* backend: registered users, name -> record
    databases,             \* backend: names of the existing databases
    published,             \* messaging client: last index assigned
    index,                 \* backend: Server.Index(), last index applied
    mapped,                \* backend: type the field "value" is stored as
    wait,                  \* the GET /wait/:index request and its poller
    last,                  \* the last exchange served
    uuid,                  \* uuid generator: the number of identifiers issued
    Logger,                \* Handler.Logger: the writer of the current logger
    WriteTrace,            \* Handler.WriteTrace
    nodes,                 \* backend: the data nodes, id -> url
    create                 \* the POST /data_nodes request in flight

vars == <<requireAuthentication, users, databases, published, index, mapped, wait, last,
          uuid, Logger, WriteTrace, nodes, create>>

\* What the wrappers, the logger and the cluster administration hold.
wrapperState == <<uuid, Logger, WriteTrace, nodes, create>>

backend == <<users, databases, published, index, mapped>>

\* The :index path parameters and timeout query parameters clients send.
IndexParams ==
    { <<"0">>, <<"1">>, <<"2">>, <<"3">>, <<"f", "o", "o">>, <<"-", "1">>,
      <<"9", "9", "9", "9", "9", "9", "9", "9">> }

TimeoutParams ==
    { <<>>, <<"0">>, <<"1">>, <<"2", "0", "0">>, <<"-", "1">>, <<"x">>,
      <<"9", "9", "9", "9", "9", "9", "9", "9">> }

NoLast == [kind |-> "none"]

\* os.Stderr, the writer of the logger NewHandler creates.
Stderr == "os.Stderr"

\* A cluster without data nodes.
NoNodes == [id \in {} |-> ""]

\* No POST /data_nodes is in flight.
NoCreate == [pc |-> "idle"]

NoWait ==
    [pc |-> "idle", poll |-> "none", index |-> <<>>, timeout |-> <<>>,
     headers |-> NoHeaders, target |-> 0, d |-> 0, w |-> NewResponse, observed |-> FALSE,
     startIndex |-> 0, endIndex |-> 0, fromWrite |-> FALSE, overlap |-> FALSE]

(***************************************************************************)
(* GET /wait/:index                                                        *)
(***************************************************************************)
\* Mutant: the timeout is converted without the default for 0.
WaitDurationNoDefault(timeout) == DurationOf(timeout)

\* The duration serveWait hands to pollForIndex.
WaitDuration(timeout) == IF timeout = 0 THEN MaxInt ELSE DurationOf(timeout)

\* time.After(d) delivers after d nanoseconds: at once for d <= 0, at any
\* later moment for a finite d. The maximal duration (292 years in the
\* build) does not elapse.
TimerExpires(d) == d # MaxInt

\* Mutant: the poller signals one index early.
IndexMetEarly(i, target) == i + 1 >= target

\* Mutant: the poller signals only once the index has passed the target.
IndexMetStrict(i, target) == i > target

\* The poller's test of the backend index against the target.
IndexMet(i, target) == i >= target

\* GET /wait/:index, a gzipped route: serveWait up to the select of
\* pollForIndex: parse the parameters, reject index 0, start the poller
\* goroutine and arm the timer.
ServeWait(indexParam, timeoutParam, h, viaWrite) ==
    /\ wait.pc = "idle"
    /\ LET idx == ParseUint(indexParam).v
           timeout == Atoi(timeoutParam).v
           req == [NoWait EXCEPT !.index = indexParam, !.timeout = timeoutParam,
                                 !.headers = h, !.w = Enter(h, TRUE),
                                 !.target = idx, !.startIndex = index,
                                 !.fromWrite = viaWrite]
       IN  IF idx = 0
           THEN wait' = [req EXCEPT !.pc = "done", !.endIndex = index,
                                    !.w = Leave(WriteHeader(@, StatusBadRequest))]
           ELSE wait' = [req EXCEPT !.pc = "select", !.poll = "check",
                                    !.d = WaitDuration(timeout)]
    /\ UNCHANGED <<wrapperState, requireAuthentication, backend, last>>

\* Poller: if h.server.Index() >= index, go on to send on done. observed
\* records whether the index the poller read had reached the target.
PollCheck ==
    /\ wait.poll = "check"
    /\ wait' = IF IndexMet(index, wait.target)
               THEN [wait EXCEPT !.poll = "send", !.observed = index >= wait.target]
               ELSE [wait EXCEPT !.poll = "sleep"]
    /\ UNCHANGED <<wrapperState, requireAuthentication, backend, last>>

\* Poller: time.Sleep(10 * time.Millisecond) returns.
PollSleep ==
    /\ wait.poll = "sleep"
    /\ wait' = [wait EXCEPT !.poll = "check"]
    /\ UNCHANGED <<wrapperState, requireAuthentication, backend, last>>

\* select, case <-done: the poller's send on the unbuffered channel meets
\* the request's receive; pollForIndex returns nil.
SelectDone ==
    /\ wait.pc = "select"
    /\ wait.poll = "send"
    /\ wait' = [wait EXCEPT !.pc = "respond", !.poll = "sleep"]
    /\ UNCHANGED <<wrapperState, requireAuthentication, backend, last>>

\* select, case <-time.After(timeout): pollForIndex returns the error and
\* serveWait answers 408.
SelectTimeout ==
    /\ wait.pc = "select"
    /\ TimerExpires(wait.d)
    /\ wait' = [wait EXCEPT !.pc = "done", !.endIndex = index,
                            !.w = Leave(WriteHeader(@, StatusRequestTimeout))]
    /\ UNCHANGED <<wrapperState, requireAuthentication, backend, last>>

\* serveWait after pollForIndex returned nil: write the current index.
WaitRespond ==
    /\ wait.pc = "respond"
    /\ wait' = [wait EXCEPT !.pc = "done", !.endIndex = index,
                            !.w = Leave(Write(@, FormatUint(index)))]
    /\ UNCHANGED <<wrapperState, requireAuthentication, backend, last>>

(***************************************************************************)
(* Backend.                                                                *)
(***************************************************************************)
\* The server applies the next message of the broker's log.
Apply ==
    /\ index < published
    /\ index' = index + 1
    /\ UNCHANGED <<wrapperState, requireAuthentication, users, databases, published, mapped, wait, last>>

\* Server.CreateUser(name, password, admin)
CreateUser(name, password, admin) ==
    /\ name \notin DOMAIN users
    /\ users' = [n \in DOMAIN users \cup {name} |->
                    IF n = name
                    THEN [password |-> password, admin |-> admin, write |-> {}]
                    ELSE users[n]]
    /\ UNCHANGED <<wrapperState, requireAuthentication, databases, published, index, mapped, wait, last>>

\* Server.SetPrivilege(WritePrivilege, name, db)
GrantWrite(name, db) ==
    /\ name \in DOMAIN users
    /\ db \notin users[name].write
    /\ users' = [users EXCEPT ![name].write = @ \cup {db}]
    /\ UNCHANGED <<wrapperState, requireAuthentication, databases, published, index, mapped, wait, last>>

\* Server.CreateDatabase(name)
CreateDatabase(name) ==
    /\ name \notin databases
    /\ databases' = databases \cup {name}
    /\ UNCHANGED <<wrapperState, requireAuthentication, users, published, index, mapped, wait, last>>

\* Server.UserCount()
UserCount == Cardinality(DOMAIN users)

\* Server.Authenticate(username, password): the user, or an error.
Authenticate(username, password) ==
    IF username \in DOMAIN users /\ users[username].password = password
    THEN [user |-> username, err |-> "nil"]
    ELSE [user |-> "", err |-> "invalid username or password"]

\* User.Authorize(influxql.WritePrivilege, database)
Authorize(user, database) ==
    users[user].admin \/ database \in users[user].write

\* Server.DatabaseExists(name)
DatabaseExists(name) == name \in databases

\* influxdb.NormalizeBatchPoints(bp): a point without fields is an error.
NormalizeBatchPoints(bp) ==
    IF bp.fields = "none" THEN "fields are required" ELSE "nil"

\* Server.WriteSeries: a field stored under another type is an error;
\* otherwise the points are published and the broker's index is returned.
WriteSeries(bp) ==
    IF mapped # "none" /\ mapped # bp.fields
    THEN [index |-> 0,
          err |-> "field \"value\" is type " \o bp.fields \o ", mapped as type " \o mapped]
    ELSE [index |-> published + 1, err |-> "nil"]

(***************************************************************************)
(* Response encoder.                                                       *)
(***************************************************************************)
JSONType == "application/json"

\* httpError(w, error, pretty, code)
httpError(w, error, code) ==
    Write(WriteHeader(HeaderAdd(w, "content-type", JSONType), code),
          [json |-> "results", error |-> error])

\* Mutant: the closure answers with a message of its own.
writeErrorOpaque(w, error, statusCode) ==
    Write(HeaderAdd(WriteHeader(w, statusCode), "content-type", JSONType),
          [json |-> "result", error |-> "write failed"])

\* The writeError closure of serveWrite: the status is written before the
\* content type is added to the header map.
writeError(w, error, statusCode) ==
    Write(HeaderAdd(WriteHeader(w, statusCode), "content-type", JSONType),
          [json |-> "result", error |-> error])

\* Go error values: nil, an influxdb.ErrAuthorize or any other error. The
\* text is held in pieces, so that a prefix of it can be told from the whole.
NilError == [kind |-> "nil", text |-> <<>>]
ErrAuthorize(text) == [kind |-> "ErrAuthorize", text |-> text]
NewError(text) == [kind |-> "error", text |-> text]

\* err.Error()
RECURSIVE ErrorText(_)
ErrorText(text) == IF text = <<>> THEN "" ELSE Head(text) \o ErrorText(Tail(text))

\* strings.HasPrefix(err.Error(), prefix)
HasPrefix(text, prefix) ==
    \E k \in 1..Len(text) : ErrorText(SubSeq(text, 1, k)) = prefix

\* influxdb.Results: the error of the whole query and one result, with its
\* own error, per statement executed.
NewResults(err, results) == [Err |-> err, Results |-> results]

NoResults == NewResults(NilError, <<>>)

\* Results.Error(): the error of the query, else the first error among
\* the results.
ResultsError(results) ==
    IF results.Err.kind # "nil" THEN results.Err
    ELSE LET failed == {i \in DOMAIN results.Results : results.Results[i].Err.kind # "nil"}
         IN  IF failed = {} THEN NilError
             ELSE results.Results[CHOOSE i \in failed : \A j \in failed : i <= j].Err

\* json.Marshal(results)
Marshal(results) ==
    [json |-> "results", error |-> ErrorText(results.Err.text),
     results |-> [i \in DOMAIN results.Results |-> ErrorText(results.Results[i].Err.text)]]

isAuthorizationError(err) == err.kind = "ErrAuthorize"

isMeasurementNotFoundError(err) == ErrorText(err.text) = "measurement not found"

\* Mutant: the whole text is compared.
isFieldNotFoundExact(err) == ErrorText(err.text) = "field not found"

isFieldNotFoundError(err) == HasPrefix(err.text, "field not found")

\* Mutant: the status is left to the first Write, whatever the error.
httpResultsNoStatus(w, results) ==
    Write(HeaderAdd(w, "content-type", JSONType), Marshal(results))

\* httpResults(w, results, pretty): on an error the status is written
\* first, then the content type is added to the header map.
httpResults(w, results) ==
    LET err == ResultsError(results)
        s == IF err.kind = "nil" THEN w
             ELSE IF isAuthorizationError(err) THEN WriteHeader(w, StatusUnauthorized)
             ELSE IF isMeasurementNotFoundError(err) THEN WriteHeader(w, StatusOK)
             ELSE IF isFieldNotFoundError(err) THEN WriteHeader(w, StatusOK)
             ELSE WriteHeader(w, StatusInternalServerError)
    IN  Write(HeaderAdd(s, "content-type", JSONType), Marshal(results))

(***************************************************************************)
(* Authentication gate.                                                    *)
(***************************************************************************)
\* The identity of a request that carries none.
NoUser == ""

\* The Authorization header of a request: absent, or a basic-auth pair.
NoBasicAuth == [ok |-> FALSE, u |-> "", p |-> ""]

\* parseCredentials(r): the query parameters u and p when both are
\* non-empty, else the basic-auth pair, else an error.
parseCredentials(r) ==
    IF r.u # "" /\ r.p # "" THEN [u |-> r.u, p |-> r.p, err |-> "nil"]
    ELSE IF r.basic.ok THEN [u |-> r.basic.u, p |-> r.basic.p, err |-> "nil"]
    ELSE [u |-> "", p |-> "", err |-> "unable to parse Basic Auth credentials"]

\* The outcome of the gate when it lets the request through with `user`.
GatePass(w, user, parsed, asked) ==
    [w |-> w, invoked |-> TRUE, user |-> user, parsed |-> parsed, asked |-> asked]

\* The outcome of the gate when it answers 401 itself.
GateDeny(w, error, parsed, asked) ==
    [w |-> httpError(w, error, StatusUnauthorized), invoked |-> FALSE,
     user |-> NoUser, parsed |-> parsed, asked |-> asked]

\* Mutant: no exception for a server without users.
GateOpenNoBootstrap == ~requireAuthentication

\* The gate is skipped: authentication is off, or no user is registered.
GateOpen == ~requireAuthentication \/ ~(UserCount > 0)

\* Mutant: a failed Server.Authenticate does not end the request.
authenticateFallThrough(w, r) ==
    IF GateOpen THEN GatePass(w, NoUser, FALSE, <<>>)
    ELSE LET c == parseCredentials(r) IN
         IF c.err # "nil" THEN GateDeny(w, c.err, TRUE, <<>>)
         ELSE IF c.u = "" THEN GateDeny(w, "username required", TRUE, <<>>)
         ELSE GatePass(w, Authenticate(c.u, c.p).user, TRUE, <<<<c.u, c.p>>>>)

\* authenticate(inner, h, requireAuthentication), up to the call of inner:
\* parsed tells whether parseCredentials ran, asked the pairs handed to
\* Server.Authenticate.
authenticate(w, r) ==
    IF GateOpen THEN GatePass(w, NoUser, FALSE, <<>>)
    ELSE LET c == parseCredentials(r) IN
         IF c.err # "nil" THEN GateDeny(w, c.err, TRUE, <<>>)
         ELSE IF c.u = "" THEN GateDeny(w, "username required", TRUE, <<>>)
         ELSE LET a == Authenticate(c.u, c.p) IN
              IF a.err # "nil" THEN GateDeny(w, a.err, TRUE, <<<<c.u, c.p>>>>)
              ELSE GatePass(w, a.user, TRUE, <<<<c.u, c.p>>>>)

(***************************************************************************)
(* POST /write                                                             *)
(***************************************************************************)
\* The outcome of serveWrite: the response and the result of WriteSeries
\* when it was called.
WriteDone(w, calls, res) == [w |-> w, calls |-> calls, res |-> res]

NoResult == [index |-> 0, err |-> "not called"]

\* Mutant: the index is written as the response body.
writeAcceptedInBody(w, i) == Write(w, FormatUint(i))

\* serveWrite after WriteSeries returned no error: the index goes into the
\* X-InfluxDB-Index header and nothing is written.
writeAccepted(w, i) == HeaderAdd(w, "X-InfluxDB-Index", FormatUint(i))

\* Mutant: the identity is checked before the database.
serveWriteIdentityFirst(w, r, user) ==
    LET bp == r.body IN
    IF bp.kind = "eof" THEN WriteDone(WriteHeader(w, StatusOK), <<>>, NoResult)
    ELSE IF bp.kind = "invalid"
    THEN WriteDone(writeError(w, "invalid character", StatusInternalServerError),
                   <<>>, NoResult)
    ELSE IF requireAuthentication /\ user = NoUser
    THEN WriteDone(writeError(w, "user is required to write to database \""
                                     \o bp.database \o "\"", StatusUnauthorized),
                   <<"DatabaseExists">>, NoResult)
    ELSE IF requireAuthentication /\ ~Authorize(user, bp.database)
    THEN WriteDone(writeError(w, "\"" \o user
                                     \o "\" user is not authorized to write to database \""
                                     \o bp.database \o "\"", StatusUnauthorized),
                   <<"DatabaseExists", "Authorize">>, NoResult)
    ELSE IF bp.database = ""
    THEN WriteDone(writeError(w, "database is required", StatusInternalServerError),
                   <<>>, NoResult)
    ELSE IF ~DatabaseExists(bp.database)
    THEN WriteDone(writeError(w, "database not found: \"" \o bp.database \o "\"",
                              StatusNotFound),
                   <<"DatabaseExists">>, NoResult)
    ELSE IF NormalizeBatchPoints(bp) # "nil"
    THEN WriteDone(writeError(w, NormalizeBatchPoints(bp), StatusInternalServerError),
                   <<"DatabaseExists">>, NoResult)
    ELSE LET res == WriteSeries(bp) IN
         IF res.err # "nil"
         THEN WriteDone(writeError(w, res.err, StatusInternalServerError),
                        <<"DatabaseExists", "WriteSeries">>, res)
         ELSE WriteDone(writeAccepted(w, res.index),
                        <<"DatabaseExists", "WriteSeries">>, res)


\* Mutant: the endpoint does not check the identity.
serveWriteNoIdentityCheck(w, r, user) ==
    LET bp == r.body IN
    IF bp.kind = "eof" THEN WriteDone(WriteHeader(w, StatusOK), <<>>, NoResult)
    ELSE IF bp.kind = "invalid"
    THEN WriteDone(writeError(w, "invalid character", StatusInternalServerError),
                   <<>>, NoResult)
    ELSE IF bp.database = ""
    THEN WriteDone(writeError(w, "database is required", StatusInternalServerError),
                   <<>>, NoResult)
    ELSE IF ~DatabaseExists(bp.database)
    THEN WriteDone(writeError(w, "database not found: \"" \o bp.database \o "\"",
                              StatusNotFound),
                   <<"DatabaseExists">>, NoResult)
    ELSE IF NormalizeBatchPoints(bp) # "nil"
    THEN WriteDone(writeError(w, NormalizeBatchPoints(bp), StatusInternalServerError),
                   <<"DatabaseExists">>, NoResult)
    ELSE LET res == WriteSeries(bp) IN
         IF res.err # "nil"
         THEN WriteDone(writeError(w, res.err, StatusInternalServerError),
                        <<"DatabaseExists", "WriteSeries">>, res)
         ELSE WriteDone(writeAccepted(w, res.index),
                        <<"DatabaseExists", "WriteSeries">>, res)


\* Mutant: an empty body is decoded as an empty batch and validated.
serveWriteValidateEmpty(w, r, user) ==
    LET bp == r.body IN
    IF bp.kind = "invalid"
    THEN WriteDone(writeError(w, "invalid character", StatusInternalServerError),
                   <<>>, NoResult)
    ELSE IF bp.database = ""
    THEN WriteDone(writeError(w, "database is required", StatusInternalServerError),
                   <<>>, NoResult)
    ELSE IF ~DatabaseExists(bp.database)
    THEN WriteDone(writeError(w, "database not found: \"" \o bp.database \o "\"",
                              StatusNotFound),
                   <<"DatabaseExists">>, NoResult)
    ELSE IF requireAuthentication /\ user = NoUser
    THEN WriteDone(writeError(w, "user is required to write to database \""
                                     \o bp.database \o "\"", StatusUnauthorized),
                   <<"DatabaseExists">>, NoResult)
    ELSE IF requireAuthentication /\ ~Authorize(user, bp.database)
    THEN WriteDone(writeError(w, "\"" \o user
                                     \o "\" user is not authorized to write to database \""
                                     \o bp.database \o "\"", StatusUnauthorized),
                   <<"DatabaseExists", "Authorize">>, NoResult)
    ELSE IF NormalizeBatchPoints(bp) # "nil"
    THEN WriteDone(writeError(w, NormalizeBatchPoints(bp), StatusInternalServerError),
                   <<"DatabaseExists">>, NoResult)
    ELSE LET res == WriteSeries(bp) IN
         IF res.err # "nil"
         THEN WriteDone(writeError(w, res.err, StatusInternalServerError),
                        <<"DatabaseExists", "WriteSeries">>, res)
         ELSE WriteDone(writeAccepted(w, res.index),
                        <<"DatabaseExists", "WriteSeries">>, res)


\* Mutant: the batch is written without being normalized.
serveWriteNoNormalize(w, r, user) ==
    LET bp == r.body IN
    IF bp.kind = "eof" THEN WriteDone(WriteHeader(w, StatusOK), <<>>, NoResult)
    ELSE IF bp.kind = "invalid"
    THEN WriteDone(writeError(w, "invalid character", StatusInternalServerError),
                   <<>>, NoResult)
    ELSE IF bp.database = ""
    THEN WriteDone(writeError(w, "database is required", StatusInternalServerError),
                   <<>>, NoResult)
    ELSE IF ~DatabaseExists(bp.database)
    THEN WriteDone(writeError(w, "database not found: \"" \o bp.database \o "\"",
                              StatusNotFound),
                   <<"DatabaseExists">>, NoResult)
    ELSE IF requireAuthentication /\ user = NoUser
    THEN WriteDone(writeError(w, "user is required to write to database \""
                                     \o bp.database \o "\"", StatusUnauthorized),
                   <<"DatabaseExists">>, NoResult)
    ELSE IF requireAuthentication /\ ~Authorize(user, bp.database)
    THEN WriteDone(writeError(w, "\"" \o user
                                     \o "\" user is not authorized to write to database \""
                                     \o bp.database \o "\"", StatusUnauthorized),
                   <<"DatabaseExists", "Authorize">>, NoResult)
    ELSE LET res == WriteSeries(bp) IN
         IF res.err # "nil"
         THEN WriteDone(writeError(w, res.err, StatusInternalServerError),
                        <<"DatabaseExists", "WriteSeries">>, res)
         ELSE WriteDone(writeAccepted(w, res.index),
                        <<"DatabaseExists", "WriteSeries">>, res)

\* serveWrite with the identity and privilege checks ahead of the existence
\* check: a denied caller is answered 401 whether the database exists or not.
serveWriteDenyFirst(w, r, user) ==
    LET bp == r.body IN
    IF bp.kind = "eof" THEN WriteDone(WriteHeader(w, StatusOK), <<>>, NoResult)
    ELSE IF bp.kind = "invalid"
    THEN WriteDone(writeError(w, "invalid character", StatusInternalServerError),
                   <<>>, NoResult)
    ELSE IF bp.database = ""
    THEN WriteDone(writeError(w, "database is required", StatusInternalServerError),
                   <<>>, NoResult)
    ELSE IF requireAuthentication /\ user = NoUser
    THEN WriteDone(writeError(w, "user is required to write to database \""
                                     \o bp.database \o "\"", StatusUnauthorized),
                   <<>>, NoResult)
    ELSE IF requireAuthentication /\ ~Authorize(user, bp.database)
    THEN WriteDone(writeError(w, "\"" \o user
                                     \o "\" user is not authorized to write to database \""
                                     \o bp.database \o "\"", StatusUnauthorized),
                   <<"Authorize">>, NoResult)
    ELSE serveWriteNoNormalize(w, r, user)

\* serveWrite(w, r, user)
serveWrite(w, r, user) ==
    LET bp == r.body IN
    IF bp.kind = "eof" THEN WriteDone(WriteHeader(w, StatusOK), <<>>, NoResult)
    ELSE IF bp.kind = "invalid"
    THEN WriteDone(writeError(w, "invalid character", StatusInternalServerError),
                   <<>>, NoResult)
    ELSE IF bp.database = ""
    THEN WriteDone(writeError(w, "database is required", StatusInternalServerError),
                   <<>>, NoResult)
    ELSE IF ~DatabaseExists(bp.database)
    THEN WriteDone(writeError(w, "database not found: \"" \o bp.database \o "\"",
                              StatusNotFound),
                   <<"DatabaseExists">>, NoResult)
    ELSE IF requireAuthentication /\ user = NoUser
    THEN WriteDone(writeError(w, "user is required to write to database \""
                                     \o bp.database \o "\"", StatusUnauthorized),
                   <<"DatabaseExists">>, NoResult)
    ELSE IF requireAuthentication /\ ~Authorize(user, bp.database)
    THEN WriteDone(writeError(w, "\"" \o user
                                     \o "\" user is not authorized to write to database \""
                                     \o bp.database \o "\"", StatusUnauthorized),
                   <<"DatabaseExists", "Authorize">>, NoResult)
    ELSE IF NormalizeBatchPoints(bp) # "nil"
    THEN WriteDone(writeError(w, NormalizeBatchPoints(bp), StatusInternalServerError),
                   <<"DatabaseExists">>, NoResult)
    ELSE LET res == WriteSeries(bp) IN
         IF res.err # "nil"
         THEN WriteDone(writeError(w, res.err, StatusInternalServerError),
                        <<"DatabaseExists", "WriteSeries">>, res)
         ELSE WriteDone(writeAccepted(w, res.index),
                        <<"DatabaseExists", "WriteSeries">>, res)

\* The requests clients send to POST /write.
QueryUsers == {"", "lisa"}
Passwords == {"", "password", "wrong"}
BasicAuths == {NoBasicAuth} \cup [ok : {TRUE}, u : QueryUsers, p : Passwords]
Bodies ==
    [kind : {"eof", "invalid"}, database : {""}, fields : {"none"}]
      \cup [kind : {"bp"}, database : {"", "foo", "bar"},
            fields : {"none", "number", "string"}]
Credentials == [u : QueryUsers, p : Passwords, basic : BasicAuths]
Anonymous == [u |-> "", p |-> "", basic |-> NoBasicAuth]
WriteRequest(c, b, h) ==
    [u |-> c.u, p |-> c.p, basic |-> c.basic, body |-> b, headers |-> h]

\* POST /write, a gzipped route: the gate, then serveWrite, then the
\* backend's publication.
\* wait.overlap records that a write went through while the wait was pending.
ServeWrite(r) ==
    \E g \in {authenticate(Enter(r.headers, TRUE), r)} :
    \E e \in {IF g.invoked THEN serveWrite(g.w, r, g.user)
              ELSE WriteDone(g.w, <<>>, NoResult)} :
    LET wrote == e.res.err = "nil"
    IN  /\ wrote => published < MaxIndex
        /\ published' = IF wrote THEN e.res.index ELSE published
        /\ mapped' = IF wrote THEN r.body.fields ELSE mapped
        /\ last' = [kind |-> "write", req |-> r, gate |-> [g EXCEPT !.w = NewResponse],
                    w |-> Leave(e.w), calls |-> e.calls, res |-> e.res,
                    users |-> UserCount]
        /\ wait' = [wait EXCEPT !.overlap = @ \/ (wait.pc = "select" /\ wrote)]
        /\ UNCHANGED <<wrapperState, requireAuthentication, users, databases, index>>

(***************************************************************************)
(* GET /query                                                              *)
(***************************************************************************)
\* The statements of the q parameters clients send.
NoStatement == [stmt |-> "none"]
CreateDatabaseStatement(name) == [stmt |-> "CreateDatabase", name |-> name]
ShowDatabasesStatement == [stmt |-> "ShowDatabases"]
CreateUserStatement(name, password, admin) ==
    [stmt |-> "CreateUser", name |-> name, password |-> password, admin |-> admin]
SelectStatement(field, measurement) ==
    [stmt |-> "Select", field |-> field, measurement |-> measurement]

\* influxql.Parser.ParseQuery on the q parameters of the model.
ParseQuery(q) ==
    CASE q = "CREATE DATABASE foo" ->
            [stmt |-> CreateDatabaseStatement("foo"), err |-> "nil"]
      [] q = "SHOW DATABASES" ->
            [stmt |-> ShowDatabasesStatement, err |-> "nil"]
      [] q = "CREATE USER maeve WITH PASSWORD 'pass'" ->
            [stmt |-> CreateUserStatement("maeve", "pass", FALSE), err |-> "nil"]
      [] q = "CREATE USER louise WITH PASSWORD 'pass' WITH ALL PRIVILEGES" ->
            [stmt |-> CreateUserStatement("louise", "pass", TRUE), err |-> "nil"]
      [] q = "SELECT value FROM cpu" ->
            [stmt |-> SelectStatement("value", "cpu"), err |-> "nil"]
      [] q = "SELECT idle FROM cpu" ->
            [stmt |-> SelectStatement("idle", "cpu"), err |-> "nil"]
      [] q = "SELECT value FROM cpu.load" ->
            [stmt |-> SelectStatement("value", "cpu.load"), err |-> "nil"]
      [] q = "CREATE DATABASE" ->
            [stmt |-> NoStatement, err |-> "found EOF, expected identifier"]
      [] OTHER ->
            [stmt |-> NoStatement, err |-> "found " \o q \o ", expected SELECT"]

\* Server.Authorize(user, query, database), called when the server has
\* authentication enabled: a query without user is refused, whatever its
\* statement; an administrator may run every statement; no other user of
\* the model holds the privilege a statement of the model requires.
AuthorizeQuery(user, stmt) ==
    IF user = NoUser THEN ErrAuthorize(<<"no user provided">>)
    ELSE IF users[user].admin THEN NilError
    ELSE ErrAuthorize(<<"\"", user, "\" user is not authorized to execute '", stmt.stmt, "'">>)

\* The outcome of a query in the backend: the results and the users and
\* databases it leaves.
Executed(results, u, d) == [results |-> results, users |-> u, databases |-> d]

\* The error of a SELECT: the series written to foo hold the field value
\* of the measurement cpu.
SelectError(stmt, database) ==
    IF database \notin databases THEN NewError(<<"database not found">>)
    ELSE IF mapped = "none" \/ stmt.measurement = "cpu.load"
         THEN NewError(<<"measurement not found">>
                          \o IF stmt.measurement = "cpu" THEN <<>> ELSE <<": ", stmt.measurement>>)
    ELSE IF stmt.field # "value" THEN NewError(<<"field not found", ": ", stmt.field>>)
    ELSE NilError

\* Server.ExecuteQuery(query, database, user)
ExecuteQuery(stmt, database, user) ==
    IF requireAuthentication /\ AuthorizeQuery(user, stmt).kind # "nil"
    THEN Executed(NewResults(AuthorizeQuery(user, stmt), <<>>), users, databases)
    ELSE CASE stmt.stmt = "CreateDatabase" ->
                IF stmt.name \in databases
                THEN Executed(NewResults(NilError, <<[Err |-> NewError(<<"database exists">>)]>>),
                              users, databases)
                ELSE Executed(NewResults(NilError, <<[Err |-> NilError]>>),
                              users, databases \cup {stmt.name})
           [] stmt.stmt = "ShowDatabases" ->
                Executed(NewResults(NilError, <<[Err |-> NilError]>>), users, databases)
           [] stmt.stmt = "CreateUser" ->
                IF stmt.name \in DOMAIN users
                THEN Executed(NewResults(NilError, <<[Err |-> NewError(<<"user exists">>)]>>),
                              users, databases)
                ELSE Executed(NewResults(NilError, <<[Err |-> NilError]>>),
                              [n \in DOMAIN users \cup {stmt.name} |->
                                  IF n = stmt.name
                                  THEN [password |-> stmt.password, admin |-> stmt.admin,
                                        write |-> {}]
                                  ELSE users[n]],
                              databases)
           [] stmt.stmt = "Select" ->
                Executed(NewResults(NilError, <<[Err |-> SelectError(stmt, database)]>>),
                         users, databases)

\* The outcome of serveQuery: the response, the backend calls, the results
\* and the backend state.
QueryDone(w, calls, x) == [w |-> w, calls |-> calls, x |-> x]

\* Mutant: the parse error is dropped and a query is executed all the same.
serveQueryIgnoreParseError(w, r, user) ==
    LET query == ParseQuery(r.q)
        stmt == IF query.err # "nil" THEN ShowDatabasesStatement ELSE query.stmt
        x == ExecuteQuery(stmt, r.db, user)
    IN  QueryDone(httpResults(w, x.results), <<"ExecuteQuery">>, x)

\* serveQuery(w, r, user)
serveQuery(w, r, user) ==
    LET query == ParseQuery(r.q) IN
    IF query.err # "nil"
    THEN QueryDone(httpError(w, "error parsing query: " \o query.err, StatusBadRequest),
                   <<>>, Executed(NoResults, users, databases))
    ELSE LET x == ExecuteQuery(query.stmt, r.db, user)
         IN  QueryDone(httpResults(w, x.results), <<"ExecuteQuery">>, x)

\* The requests clients send to GET /query.
Queries ==
    {"CREATE DATABASE foo", "SHOW DATABASES", "CREATE USER maeve WITH PASSWORD 'pass'",
     "CREATE USER louise WITH PASSWORD 'pass' WITH ALL PRIVILEGES",
     "SELECT value FROM cpu", "SELECT idle FROM cpu", "SELECT value FROM cpu.load",
     "CREATE DATABASE"}

QueryRequest(c, q, h) ==
    [u |-> c.u, p |-> c.p, basic |-> c.basic, q |-> q, db |-> "foo", headers |-> h]

\* GET /query, a gzipped route: the gate, then serveQuery, then what the
\* query did in the backend.
ServeQuery(r) ==
    \E g \in {authenticate(Enter(r.headers, TRUE), r)} :
    \E e \in {IF g.invoked THEN serveQuery(g.w, r, g.user)
              ELSE QueryDone(g.w, <<>>, Executed(NoResults, users, databases))} :
        /\ users' = e.x.users
        /\ databases' = e.x.databases
        /\ last' = [kind |-> "query", req |-> r, gate |-> [g EXCEPT !.w = NewResponse],
                    w |-> Leave(e.w), calls |-> e.calls, results |-> e.x.results,
                    users |-> UserCount]
        /\ UNCHANGED <<wrapperState, requireAuthentication, published, index, mapped, wait>>

(***************************************************************************)
(* The decoder of the batch timestamp (client.BatchPoints): an epoch value *)
(* and a precision code. Go's int64 is kept at its width: a word is eight  *)
(* bytes, the least significant first, and the arithmetic is done byte by  *)
(* byte.                                                                   *)
(***************************************************************************)
WordBytes == 8
Byte == 256

\* The bytes of a number below 2^31, in k bytes.
ToBytes(n, k) == [i \in 1..k |-> IF i <= 3 THEN (n \div Pow2(8 * (i - 1))) % Byte
                                 ELSE IF i = 4 THEN n \div Pow2(24) ELSE 0]

\* A number of k bytes, widened or truncated to n bytes.
Resize(a, n) == [i \in 1..n |-> IF i <= Len(a) THEN a[i] ELSE 0]

\* Column j of the schoolbook product of a and b.
RECURSIVE Column(_, _, _, _)
Column(a, b, j, i) ==
    IF i > j THEN 0 ELSE a[i] * b[j - i + 1] + Column(a, b, j, i + 1)

\* The carries of the columns, from the least significant byte on.
RECURSIVE Carry(_, _, _)
Carry(cols, i, c) ==
    IF i > Len(cols) THEN <<>>
    ELSE <<(cols[i] + c) % Byte>> \o Carry(cols, i + 1, (cols[i] + c) \div Byte)

\* a * b modulo 2^(8k): the product of two numbers of k bytes, truncated to
\* k bytes as Go's integer multiplication truncates.
Mul(a, b) == Carry([j \in 1..Len(a) |-> Column(a, b, j, 1)], 1, 0)

\* a + b modulo 2^(8k).
Add(a, b) == Carry([j \in 1..Len(a) |-> a[j] + b[j]], 1, 0)

\* Two's complement negation.
Neg(a) == Add([j \in 1..Len(a) |-> Byte - 1 - a[j]], ToBytes(1, Len(a)))

IsZero(a) == \A i \in DOMAIN a : a[i] = 0

\* The word is negative as an int64.
Negative(a) == a[WordBytes] >= Byte \div 2

\* The number of 2k bytes holds a magnitude an int64 of the sign can hold.
FitsInt64(mag, neg) ==
    /\ \A i \in (WordBytes + 1)..Len(mag) : mag[i] = 0
    /\ \/ mag[WordBytes] < Byte \div 2
       \/ neg /\ mag[WordBytes] = Byte \div 2 /\ \A i \in 1..(WordBytes - 1) : mag[i] = 0

\* The magnitude of a decimal numeral, exact, in sixteen bytes.
RECURSIVE Magnitude(_, _, _)
Magnitude(s, i, acc) ==
    IF i > Len(s) THEN acc
    ELSE LET next == Add(Mul(acc, ToBytes(10, 2 * WordBytes)),
                         ToBytes(DigitVal(s[i]), 2 * WordBytes))
         IN  \* the sum is evaluated before the next digit is read
             IF Len(next) = 0 THEN next ELSE Magnitude(s, i + 1, next)

\* strconv.ParseInt(s, 10, 64), which encoding/json applies to a number
\* that it decodes into an int64.
ParseInt64(s) ==
    LET neg == s # <<>> /\ s[1] = "-"
        rest == IF neg THEN Tail(s) ELSE s
        mag == Magnitude(rest, 1, ToBytes(0, 2 * WordBytes))
    IN  IF rest = <<>> \/ \E i \in DOMAIN rest : rest[i] \notin Digits
        THEN [v |-> ToBytes(0, WordBytes), err |-> "syntax"]
        ELSE IF ~FitsInt64(mag, neg)
        THEN [v |-> ToBytes(0, WordBytes), err |-> "range"]
        ELSE [v |-> IF neg THEN Neg(Resize(mag, WordBytes)) ELSE Resize(mag, WordBytes),
              err |-> "nil"]

\* time.Nanosecond ... time.Hour as int64
Nanosecond == ToBytes(1, WordBytes)
Microsecond == ToBytes(1000, WordBytes)
MillisecondWord == ToBytes(Millisecond, WordBytes)
Second == ToBytes(1000000000, WordBytes)
Minute == Mul(ToBytes(60, WordBytes), Second)
Hour == Mul(ToBytes(60, WordBytes), Minute)

Precisions == {"n", "u", "ms", "s", "m", "h"}

\* The unit of a precision code.
Unit(precision) ==
    CASE precision = "n" -> Nanosecond
      [] precision = "u" -> Microsecond
      [] precision = "ms" -> MillisecondWord
      [] precision = "s" -> Second
      [] precision = "m" -> Minute
      [] precision = "h" -> Hour

\* Mutant: minutes are taken for seconds.
EpochToTimeMinutesAsSeconds(epoch, precision) ==
    Mul(epoch, IF precision = "m" THEN Second ELSE Unit(precision))

\* EpochToTime(epoch, precision): time.Unix(0, epoch*unit), the instant held
\* as its count of nanoseconds since the Unix epoch.
EpochToTime(epoch, precision) == Mul(epoch, Unit(precision))

\* The timestamps of the batches the clients send.
EpochTexts ==
    {<<"0">>,
     <<"1">>,
     <<"1", "4", "2", "5", "1", "6", "8", "0", "0", "0">>,
     <<"1", "4", "2", "5", "1", "6", "8", "0", "0", "0", "0", "0", "0">>,
     <<"1", "4", "2", "5", "1", "6", "8", "0", "0", "0", "0", "0", "0", "0", "0", "0">>,
     <<"1", "4", "2", "5", "1", "6", "8", "0", "0", "0", "0", "0", "0", "0", "0", "0", "0", "0", "0">>,
     <<"3", "9", "5", "8", "8", "0">>,
     <<"2", "3", "7", "5", "2", "8", "0", "0">>,
     <<"2", "5", "6", "2", "0", "4", "7">>,
     <<"2", "5", "6", "2", "0", "4", "8">>,
     <<"1", "5", "3", "7", "2", "2", "8", "6", "7">>,
     <<"1", "5", "3", "7", "2", "2", "8", "6", "8">>,
     <<"9", "2", "2", "3", "3", "7", "2", "0", "3", "6">>,
     <<"9", "2", "2", "3", "3", "7", "2", "0", "3", "7">>,
     <<"9", "2", "2", "3", "3", "7", "2", "0", "3", "6", "8", "5", "4">>,
     <<"9", "2", "2", "3", "3", "7", "2", "0", "3", "6", "8", "5", "5">>,
     <<"9", "2", "2", "3", "3", "7", "2", "0", "3", "6", "8", "5", "4", "7", "7", "5">>,
     <<"9", "2", "2", "3", "3", "7", "2", "0", "3", "6", "8", "5", "4", "7", "7", "6">>,
     <<"9", "2", "2", "3", "3", "7", "2", "0", "3", "6", "8", "5", "4", "7", "7", "5", "8", "0", "7">>,
     <<"9", "2", "2", "3", "3", "7", "2", "0", "3", "6", "8", "5", "4", "7", "7", "5", "8", "0", "8">>,
     <<"4", "6", "1", "1", "6", "8", "6", "0", "1", "8", "4", "2", "7", "3", "8", "7", "9", "0", "4">>,
     <<"-", "1">>,
     <<"-", "1", "4", "2", "5", "1", "6", "8", "0", "0", "0">>,
     <<"-", "9", "2", "2", "3", "3", "7", "2", "0", "3", "6", "8", "5", "4", "7", "7", "5", "8", "0", "8">>}

\* json.Unmarshal of {"timestamp": V, "precision": P} into a BatchPoints,
\* applied to one batch in a run.
UnmarshalEpoch(text, precision) ==
    /\ last.kind # "epoch"
    /\ \E v \in {ParseInt64(text)} :
          last' = [kind |-> "epoch", text |-> text, precision |-> precision, epoch |-> v.v,
                   err |-> v.err,
                   Timestamp |-> IF v.err = "nil" THEN EpochToTime(v.v, precision)
                                 ELSE ToBytes(0, WordBytes)]
    /\ UNCHANGED <<wrapperState, requireAuthentication, backend, wait>>

(***************************************************************************)
(* The routes of NewHandler and the chain of wrappers around each.         *)
(***************************************************************************)
StatusAccepted == 202
StatusNoContent == 204

Route(name, method, pattern, gzipped, log, handlerFunc) ==
    [name |-> name, method |-> method, pattern |-> pattern, gzipped |-> gzipped,
     log |-> log, handlerFunc |-> handlerFunc]

\* h.routes, in the order of registration.
Routes ==
    << Route("query", "GET", "/query", TRUE, TRUE, "serveQuery"),
       Route("write", "OPTIONS", "/write", TRUE, TRUE, "serveOptions"),
       Route("write", "POST", "/write", TRUE, TRUE, "serveWrite"),
       Route("data_nodes_index", "GET", "/data_nodes", TRUE, FALSE, "serveDataNodes"),
       Route("data_nodes_create", "POST", "/data_nodes", TRUE, FALSE, "serveCreateDataNode"),
       Route("data_nodes_delete", "DELETE", "/data_nodes/:id", TRUE, FALSE,
             "serveDeleteDataNode"),
       Route("metastore", "GET", "/metastore", FALSE, FALSE, "serveMetastore"),
       Route("status", "GET", "/status", TRUE, TRUE, "serveStatus"),
       Route("ping", "GET", "/ping", TRUE, TRUE, "servePing"),
       Route("ping-head", "HEAD", "/ping", TRUE, TRUE, "servePing"),
       Route("process_continuous_queries", "POST", "/process_continuous_queries",
             FALSE, FALSE, "serveProcessContinuousQueries"),
       Route("wait", "GET", "/wait/:index", TRUE, TRUE, "serveWait"),
       Route("index", "GET", "/", TRUE, TRUE, "serveIndex") >>

\* Mutant: every handler function is taken to have the signature with a user.
NeedsUserAlways(handlerFunc) == TRUE

\* The handler functions with the signature
\* func(http.ResponseWriter, *http.Request, *influxdb.User).
NeedsUser(handlerFunc) == handlerFunc \in {"serveQuery", "serveWrite"}

\* Mutant: the request identifier is attached inside cors.
WrappersIdInsideCors(r) ==
    (IF NeedsUser(r.handlerFunc) THEN <<"authenticate">> ELSE <<>>)
      \o (IF r.gzipped THEN <<"gzipFilter">> ELSE <<>>)
      \o <<"versionHeader", "requestID", "cors">>
      \o (IF r.log THEN <<"logging">> ELSE <<>>)
      \o <<"recovery">>

\* The wrappers the loop of NewHandler puts around the handler function of
\* route r, in the order it applies them: innermost first.
Wrappers(r) ==
    (IF NeedsUser(r.handlerFunc) THEN <<"authenticate">> ELSE <<>>)
      \o (IF r.gzipped THEN <<"gzipFilter">> ELSE <<>>)
      \o <<"versionHeader", "cors", "requestID">>
      \o (IF r.log THEN <<"logging">> ELSE <<>>)
      \o <<"recovery">>

Reverse(s) == [i \in 1..Len(s) |-> s[Len(s) + 1 - i]]

\* The handler the mux holds for route r: the wrappers from the outermost
\* to the innermost, then the handler function.
Chain(r) == Reverse(Wrappers(r)) \o <<r.handlerFunc>>

\* Mutant: the generator issues the same identifier again.
NewUUIDRepeated(n) == <<"uuid", 1>>

\* uuid.NewUUID(): the n-th identifier the generator issues.
NewUUID(n) == <<"uuid", n>>

\* What a request leaves in the backend.
Outcome(u, d, p, m, n) ==
    [users |-> u, databases |-> d, published |-> p, mapped |-> m, nodes |-> n]

\* A request as it enters the handler of its route: the response writer,
\* the request, the identity, the wrappers entered, the lines logged, the
\* state of the uuid generator and what the endpoint left in the backend.
NewContext(r) ==
    [r |-> r, w |-> NewResponse, user |-> NoUser, trace |-> <<>>, log |-> <<>>,
     uuid |-> uuid, gated |-> FALSE, calls |-> <<>>, panicking |-> FALSE,
     out |-> Outcome(users, databases, published, mapped, nodes)]

\* buildLogLine(l, r, start): the line holds the status the response logger
\* saw and the Request-Id header of the request.
buildLogLine(c) ==
    [kind |-> "access", status |-> Finish(c.w).code, id |-> c.r.requestID]

\* A line written to a logger's writer.
Println(out, line) == [out |-> out, line |-> line]

\* Server.ID()
ServerID == 1

\* Server.DeleteDataNode(id)
DeleteDataNode(id) ==
    IF id \in DOMAIN nodes
    THEN [nodes |-> [n \in DOMAIN nodes \ {id} |-> nodes[n]], err |-> "nil"]
    ELSE [nodes |-> nodes, err |-> "data node not found"]

\* The handler functions that answer within one step of the backend.
Endpoint(name, c) ==
    CASE name = "serveOptions" -> [c EXCEPT !.w = WriteHeader(@, StatusNoContent)]
      [] name = "servePing" -> [c EXCEPT !.w = WriteHeader(@, StatusNoContent)]
      [] name = "serveIndex" -> [c EXCEPT !.w = Write(@, FormatUint(index))]
      [] name = "serveStatus" ->
            [c EXCEPT !.w = Write(HeaderAdd(@, "content-type", JSONType),
                                  [json |-> "status", id |-> ServerID, index |-> index])]
      [] name = "serveProcessContinuousQueries" ->
            [c EXCEPT !.calls = <<"RunContinuousQueries">>,
                      !.w = WriteHeader(@, StatusAccepted)]
      [] name = "serveMetastore" ->
            LET w == HeaderSet(HeaderSet(c.w, "Content-Type", "application/octet-stream"),
                               "Content-Disposition", "attachment; filename=\"meta\"")
                snapshot == [json |-> "none", error |-> "", snapshot |-> "meta"]
                err == "metastore copy failed"
            IN  [c EXCEPT !.calls = <<"CopyMetastore">>,
                          !.w = CASE c.r.copy = "nil" -> Write(w, snapshot)
                                  [] c.r.copy = "before" ->
                                        httpError(w, err, StatusInternalServerError)
                                  [] c.r.copy = "after" ->
                                        httpError(Write(w, snapshot), err,
                                                  StatusInternalServerError)]
      [] name = "serveDataNodes" ->
            [c EXCEPT !.calls = <<"DataNodes">>,
                      !.w = Write(HeaderAdd(@, "content-type", JSONType),
                                  [json |-> "nodes", error |-> "", nodes |-> nodes])]
      [] name = "serveDeleteDataNode" ->
            LET nodeID == ParseUint(c.r.id) IN
            IF nodeID.err # "nil"
            THEN [c EXCEPT !.w = httpError(@, "invalid node id", StatusBadRequest)]
            ELSE LET d == DeleteDataNode(nodeID.v) IN
                 IF d.err # "nil"
                 THEN [c EXCEPT !.calls = <<"DeleteDataNode">>,
                                !.w = httpError(@, d.err, StatusNotFound)]
                 ELSE [c EXCEPT !.calls = <<"DeleteDataNode">>,
                                !.out.nodes = d.nodes,
                                !.w = WriteHeader(@, StatusNoContent)]
      [] name = "serveQuery" ->
            LET e == serveQuery(c.w, c.r, c.user) IN
            [c EXCEPT !.w = e.w, !.calls = e.calls,
                      !.out.users = e.x.users, !.out.databases = e.x.databases]
      [] name = "serveWrite" ->
            LET e == serveWrite(c.w, c.r, c.user)
                t == IF WriteTrace
                     THEN <<Println(Logger, [kind |-> "trace", status |-> 0,
                                             id |-> c.r.requestID])>>
                     ELSE <<>>
            IN  [c EXCEPT !.w = e.w, !.calls = e.calls, !.log = @ \o t,
                          !.out.published = IF e.res.err = "nil" THEN e.res.index ELSE @,
                          !.out.mapped = IF e.res.err = "nil" THEN c.r.body.fields ELSE @]

\* The request runs through the chain: each wrapper is entered, does its
\* part before the inner handler, calls it unless it ends the request
\* itself, and does its part after it. The loggers of logging and recovery
\* are the one NewHandler created.
\* Mutant: cors hands an OPTIONS request on to the inner handler.
corsNeverReturns(r) == FALSE

\* cors returns without calling the inner handler.
corsReturns(r) == r.method = "OPTIONS"

\* recover(): the value of the panic in flight when it is called by a
\* deferred function, nil otherwise.
recover(panicking, deferred) == IF panicking /\ deferred THEN "panic" ELSE "nil"

\* A panic skips what a wrapper does after its inner handler, deferred
\* calls excepted; recovery calls recover() in its own body, after the
\* inner handler, not in a deferred function. The endpoint of a request
\* that panics does so before it writes or calls the backend.
RECURSIVE Run(_, _)
Run(chain, c) ==
    LET name == Head(chain)
        rest == Tail(chain)
        e == [c EXCEPT !.trace = Append(@, name)]
    IN  CASE name = "recovery" ->
                LET d == Run(rest, e)
                IN  IF d.panicking THEN d
                    ELSE IF recover(d.panicking, FALSE) # "nil"
                    THEN [d EXCEPT !.log = Append(@, Println(Stderr,
                                        [buildLogLine(d) EXCEPT !.kind = "recovery"]))]
                    ELSE d
          [] name = "logging" ->
                LET d == Run(rest, e)
                IN  IF d.panicking THEN d
                    ELSE [d EXCEPT !.log = Append(@, Println(Stderr, buildLogLine(d)))]
          [] name = "requestID" ->
                LET uid == NewUUID(e.uuid + 1)
                IN  Run(rest, [e EXCEPT !.uuid = @ + 1, !.r.requestID = uid,
                                        !.w = HeaderSet(@, "Request-Id", uid)])
          [] name = "cors" ->
                LET d == [e EXCEPT !.w = cors(@, e.r.headers)]
                IN  IF corsReturns(e.r) THEN d ELSE Run(rest, d)
          [] name = "versionHeader" -> Run(rest, [e EXCEPT !.w = versionHeader(@)])
          [] name = "gzipFilter" ->
                LET d == Run(rest, [e EXCEPT !.w = gzipFilter(@, e.r.headers)])
                IN  [d EXCEPT !.w = gzClose(@)]
          [] name = "authenticate" ->
                LET g == authenticate(e.w, e.r)
                IN  IF g.invoked THEN Run(rest, [e EXCEPT !.user = g.user, !.gated = TRUE])
                    ELSE [e EXCEPT !.w = g.w, !.gated = TRUE]
          [] OTHER -> IF e.r.panics THEN [e EXCEPT !.panicking = TRUE]
                      ELSE Endpoint(name, e)

\* A request to a route: method and path select the route; the rest is
\* what the wrappers and the endpoints read.
Request(route, c, h, id, param) ==
    [method |-> route.method, path |-> route.pattern,
     u |-> c.u, p |-> c.p, basic |-> c.basic, headers |-> h, requestID |-> id,
     q |-> "CREATE DATABASE foo", db |-> "foo",
     body |-> [kind |-> "bp", database |-> "foo", fields |-> "number"],
     id |-> param, panics |-> FALSE, copy |-> "nil"]

\* The request, its endpoint panicking.
Panicking(r) == [r EXCEPT !.panics = TRUE]

\* The mux serves a request to a route whose endpoint answers in one step.
ServeRoute(route, r) ==
    /\ uuid < MaxRequests
    /\ \E c \in {Run(Chain(route), NewContext(r))} :
          /\ c.out.published # published => published < MaxIndex
          /\ users' = c.out.users
          /\ databases' = c.out.databases
          /\ published' = c.out.published
          /\ mapped' = c.out.mapped
          /\ nodes' = c.out.nodes
          /\ uuid' = c.uuid
          /\ last' = [kind |-> "route", route |-> route, req |-> r,
                      w |-> IF c.panicking THEN c.w ELSE Finish(c.w),
                      trace |-> c.trace, log |-> c.log, id |-> c.r.requestID,
                      user |-> c.user, gated |-> c.gated, calls |-> c.calls,
                      Logger |-> Logger, panicked |-> c.panicking]
    /\ UNCHANGED <<requireAuthentication, index, wait, Logger, WriteTrace, create>>

(***************************************************************************)
(* POST /data_nodes. The handler calls the backend three times; requests   *)
(* of other clients run between the calls.                                 *)
(***************************************************************************)
StatusCreated == 201
StatusConflict == 409
StatusBadGateway == 502

\* url.Parse(n.URL) for the URLs the clients send.
urlParse(rawurl) ==
    CASE rawurl = "http://a" -> [u |-> "http://a", err |-> "nil"]
      [] rawurl = "http://b" -> [u |-> "http://b", err |-> "nil"]
      [] rawurl = "%zz" -> [u |-> "", err |-> "parse %zz: invalid URL escape \"%zz\""]

\* The identifiers of the data nodes registered for URL u.
NodeIDs(u) == {id \in DOMAIN nodes : nodes[id] = u}

\* Server.DataNodeByURL(u): the node, or nil.
NilNode == [ID |-> 0, URL |-> "", nil |-> TRUE]
DataNodeByURL(u) ==
    IF NodeIDs(u) = {} THEN NilNode
    ELSE [ID |-> CHOOSE id \in NodeIDs(u) : TRUE, URL |-> u, nil |-> FALSE]

\* The identifier the backend gives to the next data node.
\* one above the highest identifier in use.
NextNodeID == 1 + Cardinality({id \in 1..MaxNodes : \E n \in DOMAIN nodes : id <= n})

\* The exchange of a POST /data_nodes that has ended.
Created(c, w, panicked) ==
    [kind |-> "create", req |-> c.req, url |-> c.u, before |-> c.before, new |-> c.new,
     node |-> c.node, replica |-> c.replica, panicked |-> panicked, w |-> w]

\* serveCreateDataNode up to the return of Server.CreateDataNode.
CreateBegin(r) ==
    /\ create.pc = "idle"
    /\ uuid < MaxRequests
    /\ uuid' = uuid + 1
    /\ LET w == gzipFilter(versionHeader(cors(HeaderSet(NewResponse, "Request-Id",
                                                        NewUUID(uuid + 1)), r.headers)),
                           r.headers)
           u == IF r.body.kind = "json" THEN urlParse(r.body.url)
                ELSE [u |-> "", err |-> "nil"]
           c == [pc |-> "lookup", req |-> r, u |-> u.u, before |-> nodes, new |-> FALSE,
                 node |-> NilNode, replica |-> "none", w |-> w]
       IN  IF r.body.kind # "json"
           THEN /\ last' = Created(c, Leave(httpError(w, "EOF", StatusBadRequest)), FALSE)
                /\ UNCHANGED <<nodes, create>>
           ELSE IF u.err # "nil"
           THEN /\ last' = Created(c, Leave(httpError(w, "invalid data node url",
                                                      StatusBadRequest)), FALSE)
                /\ UNCHANGED <<nodes, create>>
           ELSE IF NodeIDs(u.u) # {}
           THEN /\ last' = Created(c, Leave(httpError(w, "data node exists",
                                                      StatusConflict)), FALSE)
                /\ UNCHANGED <<nodes, create>>
           ELSE /\ NextNodeID <= MaxNodes
                /\ nodes' = [n \in DOMAIN nodes \cup {NextNodeID} |->
                               IF n = NextNodeID THEN u.u ELSE nodes[n]]
                /\ create' = [c EXCEPT !.new = TRUE]
                /\ UNCHANGED last
    /\ UNCHANGED <<requireAuthentication, backend, wait, Logger, WriteTrace>>

\* node := h.server.DataNodeByURL(u)
CreateLookup ==
    /\ create.pc = "lookup"
    /\ create' = [create EXCEPT !.pc = "replica", !.node = DataNodeByURL(create.u)]
    /\ UNCHANGED <<requireAuthentication, backend, wait, last, uuid, Logger, WriteTrace,
                   nodes>>

\* h.server.Client().CreateReplica(node.ID, node.URL) and the response. The
\* read of node.ID panics when the node is nil; the broker accepts the
\* replica or fails.
CreateRespond(err) ==
    /\ create.pc = "replica"
    /\ create' = NoCreate
    /\ LET c == [create EXCEPT !.replica = IF create.node.nil THEN "none" ELSE err]
       IN  last' =
             IF c.node.nil THEN Created(c, gzClose(c.w), TRUE)
             ELSE IF err # "nil"
             THEN Created(c, Leave(httpError(c.w, err, StatusBadGateway)), FALSE)
             ELSE Created(c, Leave(Write(HeaderAdd(WriteHeader(c.w, StatusCreated),
                                                   "content-type", JSONType),
                                         [json |-> "node", error |-> "",
                                          id |-> c.node.ID, url |-> c.node.URL])),
                          FALSE)
    /\ UNCHANGED <<requireAuthentication, backend, wait, uuid, Logger, WriteTrace, nodes>>

\* The bodies of the POST /data_nodes requests.
NodeBodies ==
    {[kind |-> "eof", url |-> ""]}
      \cup [kind : {"json"}, url : {"http://a", "http://b", "%zz"}]

CreateRequests == [body : NodeBodies, headers : [origin : {""}, accept : BOOLEAN]]

CreateStep ==
    \/ \E r \in CreateRequests : CreateBegin(r)
    \/ CreateLookup
    \/ \E err \in {"nil", "broker unavailable"} : CreateRespond(err)

\* Handler.SetLogOutput(w)
SetLogOutput(w) ==
    /\ Logger' = w
    /\ Logger' # Logger
    /\ UNCHANGED <<requireAuthentication, backend, wait, last, uuid, WriteTrace, nodes,
                   create>>

\* The owner of the handler turns the tracing of the write path on.
SetWriteTrace ==
    /\ ~WriteTrace
    /\ WriteTrace' = TRUE
    /\ UNCHANGED <<requireAuthentication, backend, wait, last, uuid, Logger, nodes, create>>

(***************************************************************************)
(* Specifications.                                                         *)
(***************************************************************************)
NoUsers == [n \in {} |-> [password |-> "", admin |-> FALSE, write |-> {}]]

\* A freshly initialized server behind a new handler.
Init ==
    /\ requireAuthentication \in BOOLEAN
    /\ users = NoUsers
    /\ databases = {}
    /\ published = 1
    /\ index = 1
    /\ mapped = "none"
    /\ wait = NoWait
    /\ last = NoLast
    /\ uuid = 0
    /\ Logger = Stderr
    /\ WriteTrace = FALSE
    /\ nodes = NoNodes
    /\ create = NoCreate

\* The headers of the wait requests: with and without gzip.
WaitHeaders == [origin : {""}, accept : BOOLEAN]

\* A client issues GET /wait/:index, with an index of its own or with the
\* index the last write returned in X-InfluxDB-Index.
IssueWait ==
    \/ \E ip \in IndexParams, tp \in TimeoutParams, h \in WaitHeaders :
          ServeWait(ip, tp, h, FALSE)
    \/ /\ last.kind = "write"
       /\ \E ip \in Sent(last.w, "X-InfluxDB-Index"), tp \in TimeoutParams,
             h \in WaitHeaders : ServeWait(ip, tp, h, TRUE)

WaitStep ==
    \/ IssueWait
    \/ PollCheck
    \/ PollSleep
    \/ SelectDone
    \/ SelectTimeout
    \/ WaitRespond

BackendStep ==
    \/ Apply
    \/ CreateDatabase("foo")
    \/ \E admin \in BOOLEAN : CreateUser("lisa", "password", admin)
    \/ GrantWrite("lisa", "foo")

Next ==
    \/ WaitStep
    \/ BackendStep
    \/ \E c \in Credentials, b \in Bodies, h \in Headers :
          ServeWrite(WriteRequest(c, b, h))
    \/ \E c \in Credentials, q \in Queries, h \in Headers :
          ServeQuery(QueryRequest(c, q, h))
    \/ \E i \in DOMAIN Routes, c \in Credentials, h \in Headers :
          ServeRoute(Routes[i], Request(Routes[i], c, h, <<>>, <<"1">>))
    \/ \E w \in {Stderr, "buffer"} : SetLogOutput(w)
    \/ SetWriteTrace
    \/ CreateStep
    \/ \E text \in EpochTexts, precision \in Precisions : UnmarshalEpoch(text, precision)

Spec == Init /\ [][Next]_vars

\* The wait primitive on a server without authentication that holds the
\* database foo, with clients that write to it.
WaitInit ==
    /\ requireAuthentication = FALSE
    /\ users = NoUsers
    /\ databases = {"foo"}
    /\ published = 1
    /\ index = 1
    /\ mapped = "none"
    /\ wait = NoWait
    /\ last = NoLast
    /\ uuid = 0
    /\ Logger = Stderr
    /\ WriteTrace = FALSE
    /\ nodes = NoNodes
    /\ create = NoCreate

WaitWrites ==
    {WriteRequest(Anonymous, b, NoHeaders) :
        b \in [kind : {"bp"}, database : {"foo"}, fields : {"number", "string"}]}

WaitNext ==
    \/ WaitStep
    \/ Apply
    \/ \E r \in WaitWrites : ServeWrite(r)

WaitSpec == WaitInit /\ [][WaitNext]_vars

\* The scheduler runs every goroutine that can take a step, timers fire,
\* and the server applies what the broker holds.
WaitFairness ==
    /\ WF_vars(PollCheck)
    /\ WF_vars(PollSleep)
    /\ WF_vars(SelectDone)
    /\ WF_vars(SelectTimeout)
    /\ WF_vars(WaitRespond)
    /\ WF_vars(Apply)

FairWaitSpec == WaitSpec /\ WaitFairness

\* The gate in front of the write path, without a wait in flight: clients
\* with every kind of credentials write one point to foo.
GateWrites ==
    {WriteRequest(c, [kind |-> "bp", database |-> "foo", fields |-> "number"], h) :
        c \in Credentials, h \in [origin : {""}, accept : BOOLEAN]}

GateStep == \E r \in GateWrites : ServeWrite(r)

GateNext ==
    \/ CreateDatabase("foo")
    \/ \E admin \in BOOLEAN : CreateUser("lisa", "password", admin)
    \/ GrantWrite("lisa", "foo")
    \/ GateStep

GateSpec == Init /\ [][GateNext]_vars

\* The write path: clients without credentials, with lisa's credentials and
\* with a wrong password send every kind of body.
WriteCredentials ==
    {Anonymous,
     [u |-> "lisa", p |-> "password", basic |-> NoBasicAuth],
     [u |-> "lisa", p |-> "wrong", basic |-> NoBasicAuth]}

WriteRequests ==
    {WriteRequest(c, b, h) :
        c \in WriteCredentials, b \in Bodies, h \in [origin : {""}, accept : BOOLEAN]}

WriteStep == \E r \in WriteRequests : ServeWrite(r)

WriteNext ==
    \/ Apply
    \/ CreateDatabase("foo")
    \/ \E admin \in BOOLEAN : CreateUser("lisa", "password", admin)
    \/ GrantWrite("lisa", "foo")
    \/ WriteStep

WriteSpec == Init /\ [][WriteNext]_vars

\* The query path: clients without credentials, with lisa's credentials and
\* with a wrong password send every query; one client writes points to foo.
QueryRequests ==
    {QueryRequest(c, q, h) :
        c \in WriteCredentials, q \in Queries, h \in [origin : {""}, accept : BOOLEAN]}

QueryWrites ==
    {WriteRequest(c, [kind |-> "bp", database |-> "foo", fields |-> "number"], NoHeaders) :
        c \in WriteCredentials}

QueryStep == \E r \in QueryRequests : ServeQuery(r)

QueryNext ==
    \/ \E admin \in BOOLEAN : CreateUser("lisa", "password", admin)
    \/ \E r \in QueryWrites : ServeWrite(r)
    \/ QueryStep

QuerySpec == Init /\ [][QueryNext]_vars

\* The routes whose endpoint answers in one step.
SimpleRoutes ==
    {Routes[i] : i \in {j \in DOMAIN Routes :
                          Routes[j].handlerFunc \notin {"serveWait", "serveCreateDataNode"}}}

\* The credentials of the requests to the routes: none, valid, invalid.
RouteCredentials ==
    {Anonymous,
     [u |-> "lisa", p |-> "password", basic |-> NoBasicAuth],
     [u |-> "lisa", p |-> "wrong", basic |-> NoBasicAuth]}

\* The Request-Id header a client sends: none, or a value of its own.
ClientIds == {<<>>, <<"client">>}

\* What varies in the requests to one route: the credentials with and
\* without gzip, the origin, and the Request-Id of the client.
RouteInputs ==
    [c : RouteCredentials, h : [origin : {""}, accept : BOOLEAN], id : {<<>>}]
      \cup [c : {Anonymous}, h : [origin : {"http://localhost"}, accept : BOOLEAN],
            id : {<<>>}]
      \cup [c : {Anonymous}, h : {NoHeaders}, id : ClientIds]

\* Server.CopyMetastore(w) fails before it wrote to the response, or after.
CopyFailures == {"before", "after"}

RouteRequests ==
    {Request(route, x.c, x.h, x.id, <<"1">>) : route \in SimpleRoutes, x \in RouteInputs}
      \cup {Panicking(Request(route, Anonymous, h, <<>>, <<"1">>)) :
               route \in SimpleRoutes, h \in [origin : {""}, accept : BOOLEAN]}
      \cup {[Request(route, Anonymous, NoHeaders, <<>>, <<"1">>) EXCEPT !.copy = f] :
               route \in {x \in SimpleRoutes : x.name = "metastore"}, f \in CopyFailures}

RouteStep == \E r \in RouteRequests :
    \E route \in {x \in SimpleRoutes : x.method = r.method /\ x.pattern = r.path} :
        ServeRoute(route, r)

\* The handler behind its mux, its owner redirecting the log output and
\* turning the write trace on, and an administrator on the backend.
RouteNext ==
    \/ RouteStep
    \/ SetLogOutput("buffer")
    \/ SetWriteTrace
    \/ CreateUser("lisa", "password", TRUE)

\* The decoder of the batch timestamp, applied to the batches of the clients.
EpochNext == \E text \in EpochTexts, precision \in Precisions : UnmarshalEpoch(text, precision)

EpochSpec == Init /\ [][EpochNext]_vars

RouteSpec == Init /\ [][RouteNext]_vars

\* The :id parameters of the DELETE /data_nodes/:id requests.
NodeParams == {<<"1">>, <<"2">>, <<"x">>}

NodeRequests ==
    {Request(route, Anonymous, NoHeaders, <<>>, param) :
        route \in {x \in SimpleRoutes : x.name = "data_nodes_delete"}, param \in NodeParams}
      \cup {Request(route, Anonymous, NoHeaders, <<>>, <<"1">>) :
              route \in {x \in SimpleRoutes : x.name = "data_nodes_index"}}

NodeStep == \E r \in NodeRequests :
    \E route \in {x \in SimpleRoutes : x.method = r.method /\ x.pattern = r.path} :
        ServeRoute(route, r)

\* The administration of the data nodes: a client creates nodes while
\* others list and delete them.
NodeNext ==
    \/ CreateStep
    \/ NodeStep

NodeSpec == Init /\ [][NodeNext]_vars

(***************************************************************************)
(* Properties of the wait primitive.                                       *)
(***************************************************************************)
\* The wait reached pollForIndex.
WaitPolled == wait.pc \in {"select", "respond", "done"} /\ wait.target # 0

WaitPending == wait.pc = "select"

WaitAnswered == wait.pc = "done"

\* No timeout parameter, or timeout=0.
WaitUnbounded == wait.timeout \in {<<>>, <<"0">>}

\* The answer is 200 with one decimal number as body.
WaitOK == wait.w.code = StatusOK /\ Len(wait.w.body) = 1

WaitBody == ParseUint(wait.w.body[1]).v

\* C1: a wait for an index N > 0 that the backend had already reached when
\* the request was issued is answered 200 with the backend's index at the
\* time of the answer as body, whatever the timeout and the interleaving.
C1_MetIndexAnswers200 ==
    (WaitAnswered /\ wait.target > 0 /\ wait.startIndex >= wait.target)
        => (WaitOK /\ wait.w.body = <<FormatUint(wait.endIndex)>>)

C2_Never200 ==
    (WaitAnswered /\ WaitPolled /\ Atoi(wait.timeout).v > 0
        /\ wait.endIndex < wait.target)
        => (wait.w.code = StatusRequestTimeout /\ wait.w.body = <<>>)

\* C2: a wait with a positive timeout returns, and when the backend index
\* has not reached N by then the answer is 408 with an empty body, never 200.
C2_TimeoutAnswers408 ==
    /\ [](C2_Never200)
    /\ (WaitPending /\ Atoi(wait.timeout).v > 0) ~> WaitAnswered

C2_Witness ==
    /\ WaitAnswered /\ WaitPolled /\ Atoi(wait.timeout).v > 0
    /\ wait.endIndex < wait.target
    /\ wait.w.code = StatusRequestTimeout

\* C3: a wait whose :index is 0 or does not parse as an unsigned integer is
\* answered 400 and starts no poller.
C3_BadIndexAnswers400 ==
    (wait.pc # "idle"
        /\ (ParseUint(wait.index).v = 0 \/ ParseUint(wait.index).err # "nil"))
        => (wait.poll = "none" /\ (WaitAnswered => wait.w.code = StatusBadRequest))

\* C4: a wait that reached the poll loop is pending until it is answered,
\* once, with 200 or 408; 200 only after the poller saw the index at or
\* above the target, and then the body is an index at or above the target.
C4_PendingThenOneAnswer ==
    [][WaitPolled =>
        /\ (wait.w.code = 0) = (wait.pc \in {"select", "respond"})
        /\ wait.w.code \in {0, StatusOK, StatusRequestTimeout}
        /\ wait.w.code # 0 => wait'.w = wait.w
        /\ wait'.w.code = StatusOK =>
              /\ wait'.observed
              /\ wait'.w.body = <<FormatUint(wait'.endIndex)>>
              /\ ParseUint(wait'.w.body[1]).v >= wait'.target
        /\ wait'.w.code = StatusRequestTimeout => wait'.w.body = <<>>]_vars

C4_Witness ==
    WaitAnswered /\ WaitOK /\ wait.startIndex < wait.target /\ ~wait.fromWrite
        /\ ~WaitUnbounded

C5_PendingUntilMet ==
    (WaitPolled /\ WaitUnbounded) =>
        /\ wait.w.code \in {0, StatusOK}
        /\ index < wait.target => WaitPending
        /\ WaitAnswered => (WaitOK /\ WaitBody >= wait.target)

\* C5: a wait for N > 0 with timeout 0 or without timeout is never answered
\* 408: it is pending while the backend index is below N, and once the
\* index is at or above N it is answered 200.
C5_NoTimeoutNever408 ==
    /\ [](C5_PendingUntilMet)
    /\ (WaitPending /\ WaitUnbounded /\ index >= wait.target)
          ~> (WaitAnswered /\ WaitOK)

C5_Witness ==
    /\ WaitAnswered /\ WaitUnbounded /\ WaitOK
    /\ wait.startIndex < wait.target /\ ~wait.fromWrite /\ ~wait.overlap

\* C6: a wait without timeout for the index a successful write returned in
\* X-InfluxDB-Index is eventually answered 200 with a body at or above
\* that index, under fair scheduling and a backend that applies its log.
C6_ReadYourWrites ==
    (WaitPending /\ WaitUnbounded /\ wait.fromWrite)
        ~> (WaitAnswered /\ WaitOK /\ WaitBody >= wait.target)

C6_Witness ==
    /\ WaitAnswered /\ WaitUnbounded /\ wait.fromWrite /\ WaitOK
    /\ wait.startIndex < wait.target
    /\ last.kind = "write" /\ last.res.err = "nil" /\ last.res.index = wait.target

Enforced == last.kind = "write" /\ requireAuthentication /\ last.users > 0

\* The response is a 401 carrying a JSON error.
Denied401(w) ==
    /\ w.code = StatusUnauthorized
    /\ Sent(w, "content-type") = {JSONType}
    /\ Len(w.body) = 1
    /\ w.body[1].json = "results"

\* C8: the gate calls the endpoint with no identity, without extracting
\* credentials and without calling Server.Authenticate, exactly when
\* authentication is off or the backend has no user at that request.
C8_BootstrapException ==
    last.kind = "write" =>
        ((last.gate.invoked /\ last.gate.user = NoUser
            /\ ~last.gate.parsed /\ last.gate.asked = <<>>)
         <=> (~requireAuthentication \/ last.users = 0))

C8_Witness ==
    /\ last.kind = "write" /\ requireAuthentication /\ last.users = 0
    /\ last.gate.invoked /\ last.calls # <<>>
    /\ UserCount > 0

\* C9: with authentication enforced, the gate answers 401 with a JSON error
\* without calling the endpoint when the credentials are missing, the
\* username is empty or the backend does not resolve the pair; it calls the
\* endpoint only with the identity a successful Server.Authenticate returned.
C9_GateFailureIs401 ==
    Enforced =>
        LET c == parseCredentials(last.req) IN
        /\ last.gate.invoked <=>
              (c.err = "nil" /\ c.u # "" /\ c.u \in DOMAIN users
                  /\ users[c.u].password = c.p)
        /\ ~last.gate.invoked =>
              /\ Denied401(last.w)
              /\ last.calls = <<>>
              /\ last.res = NoResult
        /\ last.gate.invoked =>
              /\ last.gate.asked = <<<<c.u, c.p>>>>
              /\ last.gate.user = c.u

C9_Witness ==
    Enforced /\ ~last.gate.invoked /\ last.gate.asked # <<>> /\ Denied401(last.w)

\* C10: the query parameters u and p are taken in preference to the
\* basic-auth header, and when neither yields a non-empty username with a
\* non-empty password the gate answers 401 without calling
\* Server.Authenticate.
C10_IncompleteCredentials401 ==
    Enforced =>
        LET r == last.req
            byQuery == r.u # "" /\ r.p # ""
            byBasic == r.basic.ok /\ r.basic.u # "" /\ r.basic.p # ""
        IN  /\ byQuery => last.gate.asked = <<<<r.u, r.p>>>>
            /\ (~byQuery /\ ~byBasic) =>
                  (Denied401(last.w) /\ last.gate.asked = <<>>)

(***************************************************************************)
(* Properties of the write path.                                           *)
(***************************************************************************)
\* This step served a POST /write; last' holds the exchange, the unprimed
\* backend variables the state it was served in.
WriteServed == last' # last /\ last'.kind = "write"

\* The error message of a response's JSON body, "" without a body.
ErrorOf(w) == IF w.body = <<>> THEN "" ELSE w.body[1].error

\* C12: after a successful decode, POST /write answers with the first
\* failing check in the order: empty database name (500), database does
\* not exist (404), authentication required and no identity (401),
\* identity without write privilege on the database (401).
C12_ValidationOrder ==
    [][(WriteServed /\ last'.gate.invoked /\ last'.req.body.kind = "bp") =>
        LET db == last'.req.body.database
            user == last'.gate.user
            w == last'.w
        IN  IF db = ""
            THEN w.code = StatusInternalServerError
                    /\ ErrorOf(w) = "database is required"
            ELSE IF db \notin databases
            THEN w.code = StatusNotFound
                    /\ ErrorOf(w) = "database not found: \"" \o db \o "\""
            ELSE IF requireAuthentication /\ user \notin DOMAIN users
            THEN w.code = StatusUnauthorized
                    /\ ErrorOf(w) = "user is required to write to database \"" \o db \o "\""
            ELSE IF requireAuthentication /\ ~users[user].admin
                        /\ db \notin users[user].write
            THEN w.code = StatusUnauthorized
                    /\ ErrorOf(w) = "\"" \o user
                          \o "\" user is not authorized to write to database \""
                          \o db \o "\""
            ELSE w.code \notin {StatusNotFound, StatusUnauthorized}
                    /\ ErrorOf(w) # "database is required"]_vars

\* A request without identity for a database that does not exist, on a
\* server that requires authentication: the earlier check answered.
C12_Witness ==
    /\ last.kind = "write" /\ requireAuthentication
    /\ last.gate.invoked /\ last.gate.user = NoUser
    /\ last.req.body.kind = "bp" /\ last.req.body.database = "bar"
    /\ last.w.code = StatusNotFound

\* The exchange called the backend function f.
Called(l, f) == \E i \in DOMAIN l.calls : l.calls[i] = f

C14_EmptyBodyNoOp ==
    /\ [][(WriteServed /\ last'.gate.invoked /\ last'.req.body.kind = "eof") =>
             /\ last'.w.code = StatusOK
             /\ last'.w.body = <<>>
             /\ Sent(last'.w, "X-InfluxDB-Index") = {}
             /\ last'.calls = <<>>
             /\ last'.res = NoResult
             /\ backend' = backend]_vars
    /\ [][(last.kind = "write" /\ last.gate.invoked /\ last.req.body.kind = "eof"
             /\ last.users = UserCount /\ ServeWrite(last.req))
            => vars' = vars]_vars

C14_Witness ==
    /\ last.kind = "write" /\ last.gate.invoked /\ last.req.body.kind = "eof"
    /\ last.w.code = StatusOK
    /\ requireAuthentication /\ databases = {"foo"}
    /\ published = 2 /\ index = 1

\* The request fails a check serveWrite makes before Server.WriteSeries,
\* in the backend state it is served in.
CoreError(r, user) ==
    \/ r.body.kind = "invalid"
    \/ /\ r.body.kind = "bp"
       /\ \/ r.body.database = ""
          \/ r.body.database \notin databases
          \/ requireAuthentication /\ user \notin DOMAIN users
          \/ requireAuthentication /\ ~users[user].admin
                /\ r.body.database \notin users[user].write
          \/ r.body.fields = "none"

\* C15: when POST /write answers with an error of its own (the decode
\* error with 500, a validation failure, a normalization failure),
\* Server.WriteSeries was not called for the request and the backend's
\* index is what it was.
C15_CoreErrorWritesNothing ==
    [][(WriteServed /\ last'.gate.invoked /\ CoreError(last'.req, last'.gate.user)) =>
        /\ last'.w.code \in {StatusInternalServerError, StatusNotFound, StatusUnauthorized}
        /\ ErrorOf(last'.w) # ""
        /\ last'.req.body.kind = "invalid" =>
              /\ last'.w.code = StatusInternalServerError
              /\ ErrorOf(last'.w) = "invalid character"
        /\ ~Called(last', "WriteSeries")
        /\ last'.res = NoResult
        /\ Sent(last'.w, "X-InfluxDB-Index") = {}
        /\ <<published, index, mapped>>' = <<published, index, mapped>>]_vars

\* A batch without fields for an existing database, from a caller allowed
\* to write, after an earlier write: the normalization error.
C15_Witness ==
    /\ last.kind = "write" /\ last.gate.invoked
    /\ last.req.body = [kind |-> "bp", database |-> "foo", fields |-> "none"]
    /\ last.w.code = StatusInternalServerError
    /\ ErrorOf(last.w) = "fields are required"
    /\ published = 2

\* C16: a POST /write the backend accepted is answered 200 with the index
\* the backend assigned to it in X-InfluxDB-Index and with no body.
C16_AcceptedWriteReturnsIndex ==
    [][(WriteServed /\ (published' # published \/ last'.res.err = "nil")) =>
        /\ last'.calls = <<"DatabaseExists", "WriteSeries">>
        /\ last'.res.err = "nil"
        /\ published' = published + 1
        /\ last'.w.code = StatusOK
        /\ last'.w.body = <<>>
        /\ Sent(last'.w, "X-InfluxDB-Index") = {FormatUint(published')}]_vars

\* The second accepted write of a run, from an authorized user.
C16_Witness ==
    /\ last.kind = "write" /\ last.res.err = "nil"
    /\ requireAuthentication /\ last.gate.user = "lisa"
    /\ published = 3
    /\ last.w.code = StatusOK
    /\ Sent(last.w, "X-InfluxDB-Index") = {<<"3">>}

\* The number of calls of f in the exchange.
CallCount(l, f) == Cardinality({i \in DOMAIN l.calls : l.calls[i] = f})

\* C17: once the field value is stored as a number, a write that sends it
\* as a string is answered 500 with the backend's message, and no request
\* calls Server.WriteSeries more than once.
C17_TypeConflictIs500 ==
    [][WriteServed =>
        /\ CallCount(last', "WriteSeries") <= 1
        /\ (last'.gate.invoked /\ ~CoreError(last'.req, last'.gate.user)
                /\ last'.req.body.kind = "bp" /\ last'.req.body.fields = "string"
                /\ mapped = "number") =>
              /\ CallCount(last', "WriteSeries") = 1
              /\ last'.w.code = StatusInternalServerError
              /\ ErrorOf(last'.w) = "field \"value\" is type string, mapped as type number"
              /\ ErrorOf(last'.w) = last'.res.err
              /\ Sent(last'.w, "X-InfluxDB-Index") = {}
              /\ <<published, mapped>>' = <<published, mapped>>]_vars

C17_Witness ==
    /\ last.kind = "write" /\ mapped = "number" /\ published = 2
    /\ last.req.body = [kind |-> "bp", database |-> "foo", fields |-> "string"]
    /\ last.calls = <<"DatabaseExists", "WriteSeries">>
    /\ last.w.code = StatusInternalServerError
    /\ last.res.err = "field \"value\" is type string, mapped as type number"

(***************************************************************************)
(* Properties of the query path.                                           *)
(***************************************************************************)
\* The last exchange is a query that serveQuery handed to the backend.
QueryExecuted == last.kind = "query" /\ Called(last, "ExecuteQuery")

\* C18: the status of a /query response is decided by the aggregate error
\* of the results alone: none 200, an authorization error 401,
\* "measurement not found" or a text starting with "field not found" 200,
\* any other error 500; the marshalled results are the body in every case.
C18_StatusFromResultsError ==
    QueryExecuted =>
        LET err == ResultsError(last.results)
            text == ErrorText(err.text)
        IN  /\ last.w.code =
                  IF err.kind = "nil" THEN StatusOK
                  ELSE IF err.kind = "ErrAuthorize" THEN StatusUnauthorized
                  ELSE IF text = "measurement not found" THEN StatusOK
                  ELSE IF text \in {"field not found", "field not found: idle"}
                       THEN StatusOK
                  ELSE StatusInternalServerError
            /\ last.w.body = <<Marshal(last.results)>>

\* A SELECT of a field the measurement does not hold.
C18_Witness ==
    /\ QueryExecuted
    /\ ErrorText(ResultsError(last.results).text) = "field not found: idle"
    /\ last.w.code = StatusOK
    /\ last.w.body[1].results = <<"field not found: idle">>

\* This step served a GET /query; last' holds the exchange.
QueryServed == last' # last /\ last'.kind = "query"

\* C20: a GET /query whose q does not parse, once past the gate, is
\* answered 400 with the parse error; Server.ExecuteQuery is not called and
\* the backend is left as it was.
C20_ParseErrorIs400 ==
    [][(QueryServed /\ last'.gate.invoked /\ ParseQuery(last'.req.q).err # "nil") =>
        /\ last'.w.code = StatusBadRequest
        /\ last'.w.body = <<[json |-> "results",
                             error |-> "error parsing query: "
                                          \o ParseQuery(last'.req.q).err]>>
        /\ last'.calls = <<>>
        /\ last'.results = NoResults
        /\ backend' = backend]_vars

\* CREATE DATABASE without a name, sent to a server that holds a user and
\* a database.
C20_Witness ==
    /\ last.kind = "query" /\ last.gate.invoked
    /\ last.req.q = "CREATE DATABASE"
    /\ last.w.code = StatusBadRequest
    /\ DOMAIN users # {} /\ databases = {"foo"}

\* The request carries no credentials.
CredentialLess(r) == r.u = "" /\ r.p = "" /\ ~r.basic.ok

\* C11: with authentication required, a query without credentials is
\* answered 401 and changes nothing, except that while no user is
\* registered the statement creating the first administrator succeeds;
\* once a user exists, every statement of an anonymous caller is answered 401.
C11_FirstAdminBootstraps ==
    [][(QueryServed /\ requireAuthentication /\ CredentialLess(last'.req)
            /\ ParseQuery(last'.req.q).err = "nil") =>
        LET stmt == ParseQuery(last'.req.q).stmt
            firstAdmin == UserCount = 0 /\ stmt.stmt = "CreateUser" /\ stmt.admin
        IN  IF firstAdmin
            THEN /\ last'.w.code = StatusOK
                 /\ stmt.name \in DOMAIN users'
                 /\ users'[stmt.name].admin
            ELSE /\ last'.w.code = StatusUnauthorized
                 /\ backend' = backend]_vars

(***************************************************************************)
(* Properties of the response encoder.                                     *)
(***************************************************************************)
\* C19: every response of the query and write routes that carries a JSON
\* body is sent with the content type application/json, on the success
\* paths and on the error paths.
C19_JSONBodyHasJSONType ==
    (last.kind \in {"write", "query"} /\ last.w.body # <<>>)
        => Sent(last.w, "content-type") = {JSONType}

(***************************************************************************)
(* Properties of the query path, continued.                                *)
(***************************************************************************)
\* C21: CREATE DATABASE for a database that exists is answered 500 with
\* the one result "database exists" as body, and the databases are what
\* they were.
C21_CreateDatabaseConflict ==
    [][(QueryServed /\ Called(last', "ExecuteQuery")
            /\ last'.req.q = "CREATE DATABASE foo" /\ "foo" \in databases
            /\ (requireAuthentication =>
                    (last'.gate.user \in DOMAIN users /\ users[last'.gate.user].admin))) =>
        /\ last'.w.code = StatusInternalServerError
        /\ last'.w.body = <<[json |-> "results", error |-> "",
                             results |-> <<"database exists">>]>>
        /\ databases' = databases]_vars

\* The database was created by a query and the same query is sent again.
C21_Witness ==
    /\ last.kind = "query" /\ last.req.q = "CREATE DATABASE foo"
    /\ last.w.code = StatusInternalServerError
    /\ last.results.Results = <<[Err |-> NewError(<<"database exists">>)]>>
    /\ databases = {"foo"}

(***************************************************************************)
(* Properties of the routes and their wrappers.                            *)
(***************************************************************************)
\* The last exchange went through the chain of a route.
RouteServed == last.kind = "route"

\* C22: a request OPTIONS /write is answered with status 204 and no body.
C22_OptionsIs204 ==
    (RouteServed /\ last.route.method = "OPTIONS" /\ last.route.pattern = "/write")
        => (last.w.code = StatusNoContent /\ last.w.body = <<>>)

\* C23: every response of a registered route carries the header
\* X-InfluxDB-Version, the responses to OPTIONS requests and the 401
\* responses of the gate included.
C23_VersionOnEveryResponse ==
    RouteServed => Sent(last.w, "X-InfluxDB-Version") = {Version}

\* The exchange entered the wrapper or the handler function f.
Entered(l, f) == \E i \in DOMAIN l.trace : l.trace[i] = f

\* The response is compressed and tagged Content-Encoding: gzip.
Gzipped(w) == w.gz /\ Sent(w, "Content-Encoding") = {"gzip"}

\* C24: on a route registered with the gzip flag, a response that reaches
\* gzipFilter is compressed and tagged Content-Encoding: gzip exactly when
\* the Accept-Encoding header of the request contains gzip, the 401
\* responses of the gate included; on a route registered without the flag
\* the response is never tagged gzip.
C24_GzipIffAccepted ==
    RouteServed =>
        /\ (last.route.gzipped /\ Entered(last, "gzipFilter"))
              => /\ Gzipped(last.w) <=> last.req.headers.accept
                 /\ last.w.gz <=> last.req.headers.accept
                 /\ Sent(last.w, "Content-Encoding") \subseteq {"gzip"}
        /\ ~last.route.gzipped
              => (~last.w.gz /\ Sent(last.w, "Content-Encoding") = {})

\* A 401 of the gate on a gzipped route, sent compressed.
C24_Witness ==
    /\ RouteServed
    /\ last.route.gzipped
    /\ last.gated
    /\ last.w.code = StatusUnauthorized
    /\ last.req.headers.accept
    /\ Gzipped(last.w)

\* A request was served through the chain of a route in this step.
RouteStepped == last' # last /\ last'.kind = "route"

\* The access-log lines of an exchange.
AccessLines(l) == {l.log[i] : i \in {j \in DOMAIN l.log : l.log[j].line.kind = "access"}}

\* C25: every request on a registered route gets one fresh identifier,
\* generated exactly once and distinct from the identifier of every other
\* request; it replaces a Request-Id the client supplied, the Request-Id
\* headers of the request and of the response carry the same value, and it
\* is set before the endpoint runs and is what the logging wrapper reads
\* when it builds the log line.
C25_FreshRequestId ==
    [][RouteStepped =>
         /\ uuid' = uuid + 1
         /\ last'.id = NewUUID(uuid')
         /\ \A n \in 0..uuid : last'.id # NewUUID(n)
         /\ last.kind = "route" => last'.id # last.id
         /\ last'.id # last'.req.requestID
         /\ {e[2] : e \in {x \in last'.w.header : x[1] = "Request-Id"}} = {last'.id}
         /\ last'.w.code # 0 => Sent(last'.w, "Request-Id") = {last'.id}
         /\ \A i \in DOMAIN last'.trace :
               last'.trace[i] = last'.route.handlerFunc
                  => \E j \in 1..(i - 1) : last'.trace[j] = "requestID"
         /\ (last'.route.log /\ ~last'.panicked) => AccessLines(last') # {}
         /\ \A line \in AccessLines(last') : line.line.id = last'.id]_vars

\* A later request of a client that supplied a Request-Id of its own, on a
\* route with an access log.
C25_Witness ==
    /\ RouteServed
    /\ uuid > 1
    /\ last.req.requestID = <<"client">>
    /\ last.route.log
    /\ Entered(last, last.route.handlerFunc)
    /\ Sent(last.w, "Request-Id") = {NewUUID(uuid)}

\* C27: after SetLogOutput(w), all the log output of every later request
\* (access-log lines, panic-recovery lines, write-trace lines) is written
\* to w, none of it to the writer configured before.
C27_LogOutputRedirected ==
    RouteServed => \A i \in DOMAIN last.log : last.log[i].out = last.Logger

\* The routes of the plain variant.
PlainRouteNames ==
    {"data_nodes_index", "data_nodes_create", "data_nodes_delete", "metastore", "status",
     "ping", "ping-head", "process_continuous_queries", "wait", "index"}

\* The response the handler would give to the request now.
ResponseTo(route, r) == Finish(Run(Chain(route), NewContext(r)).w)

ExpectedOrder(route) ==
    <<"recovery">>
      \o (IF route.log THEN <<"logging">> ELSE <<>>)
      \o <<"requestID", "cors", "versionHeader">>
      \o (IF route.gzipped THEN <<"gzipFilter">> ELSE <<>>)
      \o (IF route.handlerFunc \in {"serveQuery", "serveWrite"}
          THEN <<"authenticate">> ELSE <<>>)
      \o <<route.handlerFunc>>

IsPrefix(s, t) == Len(s) <= Len(t) /\ \A i \in DOMAIN s : s[i] = t[i]

\* C30: for every registered route the wrappers run, from the outside to
\* the inside, in the order recovery, logging (if the route's log flag is
\* set), requestID, cors, versionHeader, gzipFilter (if the route's gzip
\* flag is set), authenticate (for the handlers that take a user), the
\* endpoint; no route is registered with another order or without recovery
\* outermost.
C30_WrapperOrder ==
    /\ \A i \in DOMAIN Routes :
          /\ Chain(Routes[i]) = ExpectedOrder(Routes[i])
          /\ Head(Chain(Routes[i])) = "recovery"
    /\ RouteServed =>
          /\ IsPrefix(last.trace, ExpectedOrder(last.route))
          /\ Head(last.trace) = "recovery"
          /\ last.trace # ExpectedOrder(last.route)
                => \/ last.req.method = "OPTIONS" /\ last.trace[Len(last.trace)] = "cors"
                   \/ last.trace[Len(last.trace)] = "authenticate"
                        /\ last.w.code = StatusUnauthorized

\* A request that ran through all seven wrappers into its endpoint.
C30_Witness ==
    /\ RouteServed
    /\ last.route.log /\ last.route.gzipped
    /\ Len(last.trace) = 8
    /\ last.trace[8] = last.route.handlerFunc

(***************************************************************************)
(* Properties of the data node routes.                                     *)
(***************************************************************************)
\* A POST /data_nodes was answered, or ended without an answer, in this step.
CreateEnded == last' # last /\ last'.kind = "create"

\* A DELETE /data_nodes/:id was served in this step.
DeleteServed == RouteStepped /\ last'.route.name = "data_nodes_delete"

IsUnsigned(s) == s # <<>> /\ \A i \in DOMAIN s : s[i] \in Digits

\* The node set without node id.
Without(id) == [n \in DOMAIN nodes \ {id} |-> nodes[n]]

\* C26: POST /data_nodes for a new URL returns 201 with the id and the url
\* of the created node; for a registered URL it returns 409 and leaves the
\* node set unchanged; DELETE /data_nodes/:id returns 204 and removes the
\* node when it exists, 404 when no node has that id, 400 when the id is no
\* unsigned integer, the node set unchanged in both cases.
C26_DataNodeStatuses ==
    [][/\ (CreateEnded /\ last'.new /\ last'.replica # "broker unavailable")
             => /\ last'.w.code = StatusCreated
                /\ \E id \in DOMAIN last'.w.body :
                      /\ last'.w.body[id].json = "node"
                      /\ last'.w.body[id].url = last'.url
                      /\ last'.w.body[id].id \notin DOMAIN last'.before
       /\ (CreateEnded /\ last'.req.body.kind = "json" /\ NodeIDs(last'.url) # {}
             /\ ~last'.new)
             => (last'.w.code = StatusConflict /\ nodes' = nodes)
       /\ (DeleteServed /\ IsUnsigned(last'.req.id))
             => IF ParseUint(last'.req.id).v \in DOMAIN nodes
                THEN /\ last'.w.code = StatusNoContent
                     /\ nodes' = Without(ParseUint(last'.req.id).v)
                ELSE /\ last'.w.code = StatusNotFound
                     /\ nodes' = nodes
       /\ (DeleteServed /\ ~IsUnsigned(last'.req.id))
             => (last'.w.code = StatusBadRequest /\ nodes' = nodes)]_vars

(***************************************************************************)
(* Properties of the timestamp decoder.                                    *)
(***************************************************************************)
\* The numeral of the last batch is negative.
EpochNegative == last.text[1] = "-"

\* V * unit as an integer, without a word's limit: the magnitude in sixteen
\* bytes.
ExactNanoseconds ==
    Mul(Magnitude(IF EpochNegative THEN Tail(last.text) ELSE last.text, 1,
                  ToBytes(0, 2 * WordBytes)),
        Resize(Unit(last.precision), 2 * WordBytes))

\* An instant: its distance from the Unix epoch in nanoseconds, as sign and
\* magnitude.
Instant(neg, mag) == [neg |-> neg /\ ~IsZero(mag), mag |-> Resize(mag, 2 * WordBytes)]

\* The instant a time.Time built by time.Unix(0, nsec) denotes.
InstantOf(nsec) == Instant(Negative(nsec), IF Negative(nsec) THEN Neg(nsec) ELSE nsec)

\* C29: for every precision code among n, u, ms, s, m, h and every epoch
\* value V whose product with the unit fits a signed 64-bit count of
\* nanoseconds, decoding a batch with timestamp V and that precision
\* succeeds and yields exactly the instant V units after the Unix epoch.
C29_EpochDecodedExactly ==
    (last.kind = "epoch" /\ last.precision \in Precisions
        /\ FitsInt64(ExactNanoseconds, EpochNegative))
       => /\ last.err = "nil"
          /\ InstantOf(last.Timestamp) = Instant(EpochNegative, ExactNanoseconds)

\* The largest count of hours whose product fits, decoded.
C29_Witness ==
    /\ last.kind = "epoch"
    /\ last.precision = "h"
    /\ last.text = <<"2", "5", "6", "2", "0", "4", "7">>
    /\ last.err = "nil"
    /\ FitsInt64(ExactNanoseconds, EpochNegative)
    /\ ~IsZero(last.Timestamp)

(***************************************************************************)
(* Properties of cors, recovery and logging.                               *)
(***************************************************************************)
\* C31: a request whose method is OPTIONS ends in cors: it reaches neither
\* versionHeader nor gzipFilter nor the gate nor an endpoint (serveOptions,
\* registered for OPTIONS /write, is never invoked), and it makes no call
\* to the backend.
C31_OptionsEndsInCors ==
    [][(RouteStepped /\ last'.req.method = "OPTIONS") =>
          /\ last'.trace[Len(last'.trace)] = "cors"
          /\ \A f \in {"versionHeader", "gzipFilter", "authenticate", "serveOptions",
                       last'.route.handlerFunc} : ~Entered(last', f)
          /\ ~last'.gated
          /\ last'.calls = <<>>
          /\ backend' = backend
          /\ nodes' = nodes]_vars

\* An OPTIONS /write request with an Origin, answered by cors.
C31_Witness ==
    /\ RouteServed
    /\ last.req.method = "OPTIONS"
    /\ last.route.handlerFunc = "serveOptions"
    /\ last.req.headers.origin # ""
    /\ Sent(last.w, "Access-Control-Allow-Origin") = {last.req.headers.origin}
    /\ Entered(last, "cors")

\* The endpoint of the last exchange raised a panic.
PanicRaised == RouteServed /\ last.req.panics /\ Entered(last, last.route.handlerFunc)

\* The lines recovery wrote for an exchange.
RecoveryLines(l) == {i \in DOMAIN l.log : l.log[i].line.kind = "recovery"}

\* C32: a panic raised in the wrapped chain of a route is caught by
\* recovery, logged as an access-log line with the panic value, and does
\* not leave the handler.
C32_PanicRecovered ==
    PanicRaised => (RecoveryLines(last) # {} /\ ~last.panicked)

\* The number of access-log lines of an exchange.
AccessCount(l) == Cardinality({i \in DOMAIN l.log : l.log[i].line.kind = "access"})

\* C33: a request on a route whose log flag is set writes exactly one
\* access-log line, after the inner handler completed and also when it
\* panicked; on a route without the flag a request that does not panic
\* writes none.
C33_OneAccessLine ==
    RouteServed =>
        /\ last.route.log => AccessCount(last) = 1
        /\ (~last.route.log /\ ~PanicRaised) => AccessCount(last) = 0

(***************************************************************************)
(* Properties of the poller of the wait primitive.                         *)
(***************************************************************************)
\* The poller of the wait has ended (or none was started).
PollerEnded == wait.poll = "none"

\* C34: once the request of a wait has returned, with 200 or with 408, the
\* poller started by pollForIndex eventually terminates: it neither polls
\* the index forever nor stays blocked on its send forever; and the signal
\* on done is delivered at most once.
C34_PollerTerminates ==
    /\ (wait.pc = "done") ~> PollerEnded
    /\ [][(wait.poll = "send" /\ wait'.poll # "send")
             => (wait.pc = "select" /\ wait'.pc = "respond")]_vars

\* C39: for every positive integer timeout t that serveWait accepts, the
\* duration of the wait is exactly t milliseconds, a positive count of
\* nanoseconds (t * 10^6 does not wrap); the maximal duration is used only
\* when t is 0 or absent.
C39_DurationIsTimeout ==
    (wait.pc # "idle" /\ wait.target # 0) =>
        LET t == Atoi(wait.timeout) IN
        /\ (t.err = "nil" /\ t.v > 0)
              => /\ wait.d > 0
                 /\ wait.d % Millisecond = 0
                 /\ wait.d \div Millisecond = t.v
        /\ wait.d = MaxInt => (wait.timeout = <<>> \/ t.v = 0)

(***************************************************************************)
(* Properties of POST /data_nodes against the backend.                     *)
(***************************************************************************)
\* C35: POST /data_nodes is all-or-nothing: when it answers with a status
\* other than 201 (400, 409, 500, or 502 when the broker fails to create
\* the replica), the request has left no data node in the backend; a node
\* is registered only together with its replica.
C35_CreateAllOrNothing ==
    [][CreateEnded =>
          /\ (~last'.panicked /\ last'.w.code # StatusCreated)
                => \A id \in DOMAIN nodes' :
                      nodes'[id] = last'.url
                         => (id \in DOMAIN last'.before /\ last'.before[id] = last'.url)
          /\ (last'.new /\ ~last'.node.nil /\ last'.node.ID \in DOMAIN nodes')
                => last'.replica = "nil"]_vars

\* C36: under every interleaving of a POST /data_nodes with a DELETE
\* /data_nodes/:id, the node the create handler looked up by URL exists at
\* the moment its id and url are read for the replica call and the
\* response.
C36_CreateUsesPresentNode ==
    create.pc = "replica" =>
        /\ ~create.node.nil
        /\ create.node.ID \in DOMAIN nodes
        /\ nodes[create.node.ID] = create.node.URL

\* The caller of r may not write to the database r names: the gate passed
\* the request on without identity, or with an identity that is no admin and
\* holds no write privilege on the database.
Denied(r, user) ==
    \/ user \notin DOMAIN users
    \/ ~users[user].admin /\ r.body.database \notin users[user].write

\* The status POST /write gives to r in the current state.
WriteStatus(r) ==
    LET g == authenticate(Enter(r.headers, TRUE), r)
    IN  IF g.invoked THEN Leave(serveWrite(g.w, r, g.user).w).code
        ELSE Leave(g.w).code

\* C37: with authentication required, the status POST /write gives to a
\* caller that is not allowed to write (no identity, or an identity without
\* write privilege on the named database) does not depend on whether the
\* named database exists: two requests that differ only in naming an
\* existing or a missing database get the same status.
C37_DenialHidesExistence ==
    requireAuthentication =>
        \A r \in WriteRequests : \A other \in {"foo", "bar"} :
            LET q == [r EXCEPT !.body.database = other]
                g == authenticate(Enter(r.headers, TRUE), r)
            IN  (/\ r.body.kind = "bp" /\ r.body.database # ""
                 /\ r.body.database \in databases /\ other \notin databases
                 /\ g.invoked /\ Denied(r, g.user) /\ Denied(q, g.user))
                    => WriteStatus(r) = WriteStatus(q)


\* C37 as the code has it: with authentication required, a caller that reaches
\* POST /write with a database name and is not allowed to write is answered
\* 401 when the named database exists and 404 "database not found" when it
\* does not, with nothing written; the status depends on the existence of the
\* database and not on whether identity or privilege is what the caller lacks.
C37_DenialAfterExistence ==
    [][(/\ WriteServed /\ requireAuthentication /\ last'.gate.invoked
        /\ last'.req.body.kind = "bp" /\ last'.req.body.database # ""
        /\ Denied(last'.req, last'.gate.user)) =>
            /\ last'.w.code = IF last'.req.body.database \in databases
                              THEN StatusUnauthorized ELSE StatusNotFound
            /\ last'.w.code = StatusNotFound =>
                   ErrorOf(last'.w) = "database not found: \""
                                         \o last'.req.body.database \o "\""
            /\ ~Called(last', "WriteSeries")
            /\ published' = published]_vars

C37_Witness ==
    /\ last.kind = "write" /\ requireAuthentication /\ last.gate.invoked
    /\ last.gate.user = "lisa" /\ "lisa" \in DOMAIN users /\ ~users["lisa"].admin
    /\ "foo" \in databases
    /\ last.req.body = [kind |-> "bp", database |-> "bar", fields |-> "number"]
    /\ last.w.code = StatusNotFound


(***************************************************************************)
(* Properties of GET /metastore.                                           *)
(***************************************************************************)
\* The elements of a response body that are snapshot bytes.
SnapshotBytes(w) == {i \in DOMAIN w.body : "snapshot" \in DOMAIN w.body[i]}

\* C38: when the backend's metastore copy fails, GET /metastore answers with
\* status 500 and a JSON error body and no snapshot bytes, whether the copy
\* failed before or after the backend started writing snapshot bytes to the
\* response.
C38_MetastoreFailureIs500 ==
    (/\ RouteServed /\ last.route.name = "metastore"
     /\ Called(last, "CopyMetastore") /\ last.req.copy \in CopyFailures) =>
        /\ last.w.code = StatusInternalServerError
        /\ Len(last.w.body) = 1
        /\ last.w.body[1].error = "metastore copy failed"
        /\ SnapshotBytes(last.w) = {}

====
